---------------------------- MODULE Spec2Model ----------------------------
(***************************************************************************)
(* Model of the hybrid relevance scoring engine of the resume relevance    *)
(* check system (src/core/scoring.py, src/core/models.py).                 *)
(*                                                                         *)
(* Strings are sequences of one-character strings, so that lower(),        *)
(* substring tests, joins, digit parsing and tokenisation are computed the *)
(* way the code computes them.  Scores are exact rationals held as         *)
(* integers in units of 1/ScoreUnit of a point; binary floating-point      *)
(* rounding error is not modelled.                                         *)
(***************************************************************************)
EXTENDS Integers, Sequences, FiniteSets, TLC

(***************************************************************************)
(* Characters and strings                                                  *)
(***************************************************************************)
UpperChars == <<"A","B","C","D","E","F","G","H","I","J","K","L","M",
                "N","O","P","Q","R","S","T","U","V","W","X","Y","Z">>

LowerChars == <<"a","b","c","d","e","f","g","h","i","j","k","l","m",
                "n","o","p","q","r","s","t","u","v","w","x","y","z">>

DigitChars == <<"0","1","2","3","4","5","6","7","8","9">>

IsUpper(c) == \E i \in 1..Len(UpperChars) : UpperChars[i] = c

IsLowerChar(c) == \E i \in 1..Len(LowerChars) : LowerChars[i] = c

IsDigit(c) == \E i \in 1..Len(DigitChars) : DigitChars[i] = c

DigitValue(c) == (CHOOSE i \in 1..Len(DigitChars) : DigitChars[i] = c) - 1

\* str.isalnum() of one character
IsAlnum(c) == IsUpper(c) \/ IsLowerChar(c) \/ IsDigit(c)

LowerChar(c) ==
    IF IsUpper(c)
    THEN LowerChars[CHOOSE i \in 1..Len(UpperChars) : UpperChars[i] = c]
    ELSE c

\* str.lower()
Lower(s) == [i \in 1..Len(s) |-> LowerChar(s[i])]

\* s[from:to] of Python with 0-based from (inclusive) and to (exclusive),
\* clipped to the string as Python clips a slice
Slice(s, from, to) ==
    LET hi == IF to > Len(s) THEN Len(s) ELSE to
    IN  IF from >= hi THEN <<>> ELSE SubSeq(s, from + 1, hi)

\* sub in s
Contains(s, sub) ==
    \E i \in 0..(Len(s) - Len(sub)) : Slice(s, i, i + Len(sub)) = sub

RECURSIVE Join(_)
\* ' '.join(list)
Join(list) ==
    IF Len(list) = 0 THEN <<>>
    ELSE IF Len(list) = 1 THEN list[1]
    ELSE list[1] \o <<" ">> \o Join(Tail(list))

Min2(a, b) == IF a <= b THEN a ELSE b

Max2(a, b) == IF a >= b THEN a ELSE b

RECURSIVE SetMax(_)
SetMax(S) ==
    LET x == CHOOSE y \in S : TRUE
    IN  IF S = {x} THEN x ELSE Max2(x, SetMax(S \ {x}))

\* round(num / den) of Python 3 for den > 0: to nearest, ties to even
RoundHalfEven(num, den) ==
    LET q == num \div den
        r == num % den
    IN  IF 2 * r > den THEN q + 1
        ELSE IF 2 * r < den THEN q
        ELSE IF q % 2 = 0 THEN q ELSE q + 1

(***************************************************************************)
(* fuzz.partial_ratio as fuzzywuzzy computes it over                       *)
(* difflib.SequenceMatcher (no junk, strings far below the autojunk size)  *)
(***************************************************************************)
\* The blocks <<i, j, k>> (0-based starts in a and b, size k >= 1) with
\* a[i:i+k] = b[j:j+k] inside a[alo:ahi], b[blo:bhi]
CommonBlocks(a, b, alo, ahi, blo, bhi) ==
    { blk \in (alo..(ahi - 1)) \X (blo..(bhi - 1)) \X (1..Min2(ahi - alo, bhi - blo)) :
        /\ blk[1] + blk[3] <= ahi
        /\ blk[2] + blk[3] <= bhi
        /\ Slice(a, blk[1], blk[1] + blk[3]) = Slice(b, blk[2], blk[2] + blk[3]) }

\* SequenceMatcher.find_longest_match: a longest block, the earliest in a,
\* then the earliest in b; size 0 when nothing matches
FindLongestMatch(a, b, alo, ahi, blo, bhi) ==
    LET C == CommonBlocks(a, b, alo, ahi, blo, bhi)
    IN  IF C = {} THEN <<alo, blo, 0>>
        ELSE CHOOSE x \in C : \A y \in C :
                \/ x[3] > y[3]
                \/ x[3] = y[3] /\ x[1] < y[1]
                \/ x[3] = y[3] /\ x[1] = y[1] /\ x[2] <= y[2]

RECURSIVE MatchingBlocks(_, _, _, _, _, _)
\* SequenceMatcher.get_matching_blocks, without the closing sentinel
MatchingBlocks(a, b, alo, ahi, blo, bhi) ==
    LET m == FindLongestMatch(a, b, alo, ahi, blo, bhi)
    IN  IF m[3] = 0 THEN {}
        ELSE {m}
             \cup (IF alo < m[1] /\ blo < m[2]
                   THEN MatchingBlocks(a, b, alo, m[1], blo, m[2]) ELSE {})
             \cup (IF m[1] + m[3] < ahi /\ m[2] + m[3] < bhi
                   THEN MatchingBlocks(a, b, m[1] + m[3], ahi, m[2] + m[3], bhi)
                   ELSE {})

RECURSIVE SumSizes(_)
SumSizes(blocks) ==
    IF blocks = {} THEN 0
    ELSE LET x == CHOOSE y \in blocks : TRUE
         IN  x[3] + SumSizes(blocks \ {x})

\* the number of matched characters M of SequenceMatcher.ratio() = 2M / T
Matches(a, b) == SumSizes(MatchingBlocks(a, b, 0, Len(a), 0, Len(b)))

\* the score of one alignment of the shorter string inside the longer one
WindowScore(shorter, longer, block) ==
    LET long_start == IF block[2] - block[1] > 0 THEN block[2] - block[1] ELSE 0
        long_substr == Slice(longer, long_start, long_start + Len(shorter))
        m == Matches(shorter, long_substr)
        t == Len(shorter) + Len(long_substr)
    IN  IF 2000 * m > 995 * t THEN 100 ELSE RoundHalfEven(200 * m, t)

\* fuzz.partial_ratio(s1, s2), with its decorators check_for_equivalence
\* and check_empty_string
PartialRatio(s1, s2) ==
    IF s1 = s2 THEN 100
    ELSE IF Len(s1) = 0 \/ Len(s2) = 0 THEN 0
    ELSE LET shorter == IF Len(s1) <= Len(s2) THEN s1 ELSE s2
             longer == IF Len(s1) <= Len(s2) THEN s2 ELSE s1
             blocks == MatchingBlocks(shorter, longer, 0, Len(shorter), 0, Len(longer))
                         \cup {<<Len(shorter), Len(longer), 0>>}
         IN  SetMax({WindowScore(shorter, longer, blk) : blk \in blocks})

(***************************************************************************)
(* Tokens                                                                  *)
(***************************************************************************)
RECURSIVE Scan(_, _, _)
\* the maximal runs of alphanumeric characters of s, in order
Scan(s, cur, acc) ==
    IF s = <<>> THEN (IF cur = <<>> THEN acc ELSE Append(acc, cur))
    ELSE IF IsAlnum(Head(s)) THEN Scan(Tail(s), Append(cur, Head(s)), acc)
    ELSE Scan(Tail(s), <<>>, IF cur = <<>> THEN acc ELSE Append(acc, cur))

WordRuns(s) == Scan(s, <<>>, <<>>)

\* English stop words that both stop lists (nltk, scikit-learn) hold; the
\* texts of this model use no other stop word
StopWords ==
    { <<"a","n","d">>, <<"t","h","e">>, <<"o","f">>, <<"i","n">>, <<"w","i","t","h">>, <<"f","o","r">>, <<"t","o">>, <<"a">> }

\* word_tokenize(text.lower()) followed by the filter
\* [w for w in tokens if w not in stop_words and w.isalnum()]
FilteredTokens(text) ==
    SelectSeq(WordRuns(Lower(text)), LAMBDA w : w \notin StopWords)

\* TfidfVectorizer's analyzer: lowercase, token_pattern \b\w\w+\b,
\* stop_words='english'
Analyze(text) ==
    SelectSeq(WordRuns(Lower(text)), LAMBDA w : Len(w) >= 2 /\ w \notin StopWords)

Range(seq) == {seq[i] : i \in 1..Len(seq)}

Count(seq, x) == Cardinality({i \in 1..Len(seq) : seq[i] = x})

RECURSIVE Sum(_)
\* the sum of a sequence of integers
Sum(seq) == IF seq = <<>> THEN 0 ELSE Head(seq) + Sum(Tail(seq))

(***************************************************************************)
(* The engine's TfidfVectorizer (self.tfidf_vectorizer), one object shared *)
(* by every call.  Its fitted state is the sorted vocabulary and, per      *)
(* column, the document frequency the idf was computed from.               *)
(***************************************************************************)
Unfitted == [fitted |-> FALSE, vocabulary |-> <<>>, df |-> <<>>]

\* the order of code points among the model's characters
CharRank(c) ==
    IF IsDigit(c) THEN 1 + DigitValue(c)
    ELSE IF IsUpper(c) THEN 20 + (CHOOSE i \in 1..Len(UpperChars) : UpperChars[i] = c)
    ELSE IF IsLowerChar(c) THEN 50 + (CHOOSE i \in 1..Len(LowerChars) : LowerChars[i] = c)
    ELSE 0

RECURSIVE StrLess(_, _)
\* a < b of Python strings
StrLess(a, b) ==
    IF b = <<>> THEN FALSE
    ELSE IF a = <<>> THEN TRUE
    ELSE IF CharRank(Head(a)) # CharRank(Head(b)) THEN CharRank(Head(a)) < CharRank(Head(b))
    ELSE StrLess(Tail(a), Tail(b))

RECURSIVE SortTerms(_)
\* sorted(terms)
SortTerms(terms) ==
    IF terms = {} THEN <<>>
    ELSE LET least == CHOOSE t \in terms : \A u \in terms \ {t} : StrLess(t, u)
         IN  <<least>> \o SortTerms(terms \ {least})

\* the terms of the two documents
Terms(text1, text2) == Range(Analyze(text1)) \cup Range(Analyze(text2))

\* fit_transform raises ValueError (empty vocabulary) before it changes
\* the vectorizer
FitRaises(text1, text2) == Terms(text1, text2) = {}

\* the fit of fit_transform on documents with a vocabulary: the sorted
\* vocabulary and the document frequency of each column (max_features =
\* 500 never binds on the model's texts)
Fit(text1, text2) ==
    LET d1 == Range(Analyze(text1))
        d2 == Range(Analyze(text2))
        vocabulary == SortTerms(d1 \cup d2)
    IN  [fitted |-> TRUE,
         vocabulary |-> vocabulary,
         df |-> [c \in 1..Len(vocabulary) |->
                    (IF vocabulary[c] \in d1 THEN 1 ELSE 0)
                    + (IF vocabulary[c] \in d2 THEN 1 ELSE 0)]]

\* idf^2 in hundredths: idf = ln((1 + 2) / (1 + df)) + 1 over the two
\* documents, 1 for df = 2 and 1.405465 for df = 1 (1.975332 squared)
IdfSquared(df) == IF df >= 2 THEN 100 ELSE 198

\* The transform of the call's two documents with the idf vector the
\* shared vectorizer holds at that moment.  The counts are the call's own
\* (its own vocabulary gives the columns); an idf vector of another length
\* raises, which the bare except of _text_similarity turns into 0.
TransformRaises(vectorizer, text1, text2) ==
    \/ ~vectorizer.fitted
    \/ Cardinality(Terms(text1, text2)) # Len(vectorizer.df)

\* cosine_similarity(vectors[0:1], vectors[1:2])[0][0] > 0.3
SimilarityAbove(vectorizer, text1, text2) ==
    LET t1 == Analyze(text1)
        t2 == Analyze(text2)
        own == SortTerms(Range(t1) \cup Range(t2))
        cols == 1..Len(own)
        dot == Sum([c \in cols |->
                      Count(t1, own[c]) * Count(t2, own[c]) * IdfSquared(vectorizer.df[c])])
        n1 == Sum([c \in cols |->
                      Count(t1, own[c]) * Count(t1, own[c]) * IdfSquared(vectorizer.df[c])])
        n2 == Sum([c \in cols |->
                      Count(t2, own[c]) * Count(t2, own[c]) * IdfSquared(vectorizer.df[c])])
    IN  \* cos = dot / sqrt(n1 * n2) > 3 / 10
        dot > 0 /\ 100 * dot * dot > 9 * n1 * n2

(***************************************************************************)
(* Inputs: the field values the resumes and jobs of the model are built    *)
(* from (src/core/models.py).  The engine does not lower-case or           *)
(* deduplicate skill lists, so mixed case and repeated skills occur.       *)
(***************************************************************************)
MaxRequired == 2

ReqVocab == { <<"p","y","t","h","o","n">>, <<"r","u","s","t">> }

RECURSIVE SeqsUpTo(_, _)
\* the sequences over S of length at most n
SeqsUpTo(S, n) ==
    IF n = 0 THEN {<<>>}
    ELSE LET shorter == SeqsUpTo(S, n - 1)
         IN  shorter \cup {Append(q, x) : q \in {r \in shorter : Len(r) = n - 1}, x \in S}

RequiredLists == SeqsUpTo(ReqVocab, MaxRequired)

PreferredLists == { <<>>, <<<<"s","q","l">>>>, <<<<"p","y","t","h","o","n">>, <<"p","y","t","h","o","n">>, <<"p","y","t","h","o","n">>>> }

ResumeSkillLists ==
    { <<>>, <<<<"p","y","t","o","n">>, <<"S","Q","L">>>>, <<<<"P","y","t","h","o","n","3">>, <<"P","y","t","h","o","n","3">>>>, <<<<"R","u","s","t">>, <<"P","y","t","h","o","n","3">>>> }

ResumeExperience == { <<"9"," ","y","r","s">>, <<"f","r","e","s","h","e","r">> }

JobExperience == { <<"1","2","+"," ","y","e","a","r","s">>, <<"2"," ","y","e","a","r","s">> }

ResumeEducation == { <<>>, <<<<"B",".","T","e","c","h"," ","C","S">>>> }

JobEducation == { <<>>, <<<<"B",".","T","e","c","h">>>> }

ProjectLists == { <<>>, <<<<"p","y","t","h","o","n"," ","a","p","i">>>>, <<<<"r","u","s","t"," ","c","l","i">>, <<"s","q","l"," ","e","t","l">>>> }

CertificationLists == { <<>>, <<<<"P","y","t","h","o","n"," ","a","n","d"," ","R","u","s","t"," ","c","e","r","t">>>> }

\* Further field values, for the calls that vary the parts of the hard
\* score one at a time: preferred skills in two orders, a resume skill
\* spelled as the job spells it, years on both sides of 0.7 * job_years,
\* experience strings without digits or with several numbers, degrees in
\* other spellings, a requirement that names no degree of the vocabulary
\* of _match_education, and a job with more than five required skills
LongRequired ==
    <<<<"p","y","t","h","o","n">>, <<"r","u","s","t">>, <<"r","u","s","t">>, <<"r","u","s","t">>, <<"r","u","s","t">>, <<"r","u","s","t">>>>

HardRequiredLists == RequiredLists \cup { LongRequired }

HardPreferredLists ==
    PreferredLists \cup { <<<<"s","q","l">>, <<"p","y","t","h","o","n">>>>, <<<<"p","y","t","h","o","n">>, <<"s","q","l">>>> }

HardResumeSkillLists == ResumeSkillLists \cup { <<<<"p","y","t","h","o","n">>>> }

HardResumeExperience ==
    ResumeExperience \cup { <<"7"," ","y","e","a","r","s">>, <<"6"," ","y","r","s">>, <<"1","0"," ","y","e","a","r","s">>, <<"s","i","n","c","e"," ","2","0","1","9",","," ","3"," ","y","e","a","r","s">> }

HardJobExperience ==
    JobExperience \cup { <<"0","-","2"," ","y","e","a","r","s">>, <<"1","0"," ","y","e","a","r","s">>, <<"s","e","n","i","o","r">>, <<"3"," ","t","o"," ","5"," ","y","e","a","r","s">> }

HardResumeEducation ==
    ResumeEducation
    \cup { <<<<"M","A","S","T","E","R"," ","o","f"," ","S","c","i","e","n","c","e">>>>, <<<<"H","i","g","h"," ","s","c","h","o","o","l">>>>,
           <<<<"D","i","p","l","o","m","a">>, <<"P","h","D"," ","P","h","y","s","i","c","s">>>> }

HardJobEducation ==
    JobEducation \cup { <<<<"A","n","y"," ","d","e","g","r","e","e">>>>, <<<<"M","a","s","t","e","r","'","s"," ","o","r"," ","P","h","D">>>> }

EmptyText == <<>>

ResumeTextA == <<"p","y","t","h","o","n"," ","d","e","v">>

ResumeTextB == <<"p","a","s","t","r","y"," ","c","h","e","f">>

JobTextA == <<"p","y","t","h","o","n"," ","j","o","b">>

ResumeTexts == { EmptyText, ResumeTextA, ResumeTextB }

JobTexts == { EmptyText, JobTextA }

\* the resume files of a call: the path and the text the extractor of the
\* path's format gets out of the file
SystemFiles ==
    { [file_path |-> <<"a",".","p","d","f">>, text |-> ResumeTextA],
      [file_path |-> <<"b",".","d","o","c","x">>, text |-> ResumeTextB],
      [file_path |-> <<"c",".","t","x","t">>, text |-> ResumeTextA],
      [file_path |-> <<"d",".","p","d","f">>, text |-> EmptyText] }

\* the files of the upload requests: the name and the text of each
Uploads == {[filename |-> file.file_path, text |-> file.text] : file \in SystemFiles}

\* the temporary file an API handler saves an upload to: f"/tmp/{file.filename}"
TempFile(upload) == [file_path |-> <<"/","t","m","p","/">> \o upload.filename, text |-> upload.text]

\* the company and the location of a job description; "Unknown" is the
\* default of both
Companies == { <<"U","n","k","n","o","w","n">>, <<"A","c","m","e">> }

Locations == { <<"U","n","k","n","o","w","n">>, <<"P","u","n","e">> }

Resumes ==
    [skills : ResumeSkillLists, experience : ResumeExperience,
     education : ResumeEducation, projects : ProjectLists,
     certifications : CertificationLists, resume_text : ResumeTexts]

Jobs ==
    [required_skills : RequiredLists, preferred_skills : PreferredLists,
     experience_required : JobExperience, education : JobEducation,
     description_text : JobTexts]


(***************************************************************************)
(* Score arithmetic.  A score is an integer number of 1/ScoreUnit points;  *)
(* ScoreUnit is a multiple of every skill-list length of the model, so     *)
(* 30 / len(required_skills) and 10 / len(preferred_skills) are exact.     *)
(***************************************************************************)
RECURSIVE Gcd(_, _)
Gcd(a, b) == IF b = 0 THEN a ELSE Gcd(b, a % b)

RECURSIVE LcmOf(_)
LcmOf(S) ==
    IF S = {} THEN 1
    ELSE LET x == CHOOSE y \in S : TRUE
             rest == LcmOf(S \ {x})
         IN  (x * rest) \div Gcd(x, rest)

SkillCountLcm == LcmOf({Len(l) : l \in HardRequiredLists \cup HardPreferredLists} \ {0})

ScoreUnit == 100000 * SkillCountLcm

Points(n) == n * ScoreUnit

\* a value given in hundredths of a point
Hundredths(h) == h * (ScoreUnit \div 100)

\* round(score, 2), in hundredths of a point
Round2(score) == RoundHalfEven(score, ScoreUnit \div 100)


(***************************************************************************)
(* The parsers (src/core/parsers.py), on the texts of the model: one line  *)
(* of letters and spaces, at most 20 characters long, without the word     *)
(* "skill".  On such a text no e-mail, phone or experience pattern can     *)
(* match (they need "@" or a digit), no project entry passes the filter    *)
(* len(p.strip()) > 20, and neither skills section pattern can match (the  *)
(* shortest match of the required one has 24 characters, the preferred one *)
(* needs "skill"); these helpers return their defaults.  The other helpers *)
(* are computed on the text.                                               *)
(***************************************************************************)
PlainText(text) ==
    /\ Len(text) <= 20
    /\ \A i \in 1..Len(text) : IsUpper(text[i]) \/ IsLowerChar(text[i]) \/ text[i] = " "
    /\ ~Contains(Lower(text), <<"s","k","i","l","l">>)

RECURSIVE Strip(_)
\* str.strip()
Strip(s) ==
    IF s = <<>> THEN s
    ELSE IF Head(s) = " " THEN Strip(Tail(s))
    ELSE IF s[Len(s)] = " " THEN Strip(SubSeq(s, 1, Len(s) - 1))
    ELSE s

\* the first 10 hexadecimal digits of the MD5 digest of the text
Md5Hex10(text) ==
    CASE text = EmptyText -> <<"d","4","1","d","8","c","d","9","8","f">>
      [] text = ResumeTextA -> <<"6","1","0","6","8","7","b","8","0","3">>
      [] text = ResumeTextB -> <<"c","3","f","8","5","1","9","7","7","6">>
      [] text = JobTextA -> <<"3","6","0","4","9","7","7","6","9","9">>

\* ResumeParser._generate_id
GenerateId(text) == Md5Hex10(text)

\* ResumeParser._extract_name: the named entity recogniser is an external
\* capability; it finds no person in the texts of the model
ExtractName(text) == <<"U","n","k","n","o","w","n">>

\* ResumeParser._extract_email and _extract_phone: no match
ExtractEmail(text) == <<>>

ExtractPhone(text) == <<>>

TechSkills ==
    << <<"p","y","t","h","o","n">>, <<"j","a","v","a">>, <<"j","a","v","a","s","c","r","i","p","t">>, <<"c","+","+">>, <<"s","q","l">>, <<"m","o","n","g","o","d","b">>, <<"r","e","a","c","t">>,
       <<"n","o","d","e","j","s">>, <<"d","j","a","n","g","o">>, <<"f","l","a","s","k">>, <<"t","e","n","s","o","r","f","l","o","w">>, <<"p","y","t","o","r","c","h">>, <<"s","k","l","e","a","r","n">>,
       <<"p","a","n","d","a","s">>, <<"n","u","m","p","y">>, <<"d","o","c","k","e","r">>, <<"k","u","b","e","r","n","e","t","e","s">>, <<"a","w","s">>, <<"a","z","u","r","e">>, <<"g","c","p">>,
       <<"g","i","t">>, <<"l","i","n","u","x">>, <<"a","g","i","l","e">>, <<"s","c","r","u","m">>, <<"m","a","c","h","i","n","e"," ","l","e","a","r","n","i","n","g">>,
       <<"d","e","e","p"," ","l","e","a","r","n","i","n","g">>, <<"n","l","p">>, <<"c","o","m","p","u","t","e","r"," ","v","i","s","i","o","n">>, <<"d","a","t","a"," ","s","c","i","e","n","c","e">>,
       <<"d","a","t","a"," ","a","n","a","l","y","s","i","s">> >>

RECURSIVE FoundIn(_, _)
\* [term for term in terms if term in text]
FoundIn(terms, text) ==
    IF terms = <<>> THEN <<>>
    ELSE (IF Contains(text, Head(terms)) THEN <<Head(terms)>> ELSE <<>>)
         \o FoundIn(Tail(terms), text)

\* ResumeParser._extract_skills
ExtractSkills(text) == FoundIn(TechSkills, Lower(text))

\* ResumeParser._extract_experience: "0 years" without a match
ExtractExperience(text) == <<"0"," ","y","e","a","r","s">>

ResumeEducationKeywords ==
    << <<"b","a","c","h","e","l","o","r">>, <<"m","a","s","t","e","r">>, <<"p","h","d">>, <<"b",".","t","e","c","h">>, <<"m",".","t","e","c","h">>, <<"b","s","c">>, <<"m","s","c">>,
       <<"m","b","a">>, <<"d","e","g","r","e","e">>, <<"d","i","p","l","o","m","a">> >>

\* ResumeParser._extract_education: the lines that hold a keyword, of a
\* text of one line
ExtractEducation(text) ==
    IF FoundIn(ResumeEducationKeywords, Lower(text)) # <<>> THEN <<Strip(text)>> ELSE <<>>

\* ResumeParser._extract_projects: no entry longer than 20 characters
ExtractProjects(text) == <<>>

CertKeywords == << <<"c","e","r","t","i","f","i","c","a","t","i","o","n">>, <<"c","e","r","t","i","f","i","e","d">>, <<"c","e","r","t","i","f","i","c","a","t","e">> >>

\* ResumeParser._extract_certifications: the lines that hold a keyword
\* (and the line after each), of a text of one line
ExtractCertifications(text) ==
    IF FoundIn(CertKeywords, Lower(text)) # <<>> THEN <<Strip(text)>> ELSE <<>>

\* JobDescriptionParser._extract_role_title, of a text of one line
ExtractRoleTitle(text) ==
    IF 5 < Len(text) /\ Len(text) < 100 THEN Strip(text) ELSE <<"S","o","f","t","w","a","r","e"," ","E","n","g","i","n","e","e","r">>

TechTerms ==
    << <<"p","y","t","h","o","n">>, <<"j","a","v","a">>, <<"j","a","v","a","s","c","r","i","p","t">>, <<"t","y","p","e","s","c","r","i","p","t">>, <<"c","+","+">>, <<"c","#">>, <<"s","q","l">>,
       <<"r","e","a","c","t">>, <<"a","n","g","u","l","a","r">>, <<"v","u","e">>, <<"n","o","d","e","j","s">>, <<"d","j","a","n","g","o">>, <<"f","l","a","s","k">>, <<"s","p","r","i","n","g">>,
       <<"d","o","c","k","e","r">>, <<"k","u","b","e","r","n","e","t","e","s">>, <<"a","w","s">>, <<"a","z","u","r","e">>, <<"g","c","p">>, <<"t","e","n","s","o","r","f","l","o","w">>,
       <<"p","y","t","o","r","c","h">>, <<"s","c","i","k","i","t","-","l","e","a","r","n">>, <<"p","a","n","d","a","s">>, <<"n","u","m","p","y">>, <<"m","o","n","g","o","d","b">>,
       <<"p","o","s","t","g","r","e","s","q","l">> >>

\* JobDescriptionParser._extract_general_skills
ExtractGeneralSkills(text) == FoundIn(TechTerms, Lower(text))

\* JobDescriptionParser._extract_required_skills: without a required
\* skills section, the first five general skills
ExtractRequiredSkills(text) == Slice(ExtractGeneralSkills(text), 0, 5)

\* JobDescriptionParser._extract_preferred_skills: no section, no skills
ExtractPreferredSkills(text) == <<>>

\* JobDescriptionParser._extract_experience_requirement: "0-2 years"
\* without a match
ExtractExperienceRequirement(text) == <<"0","-","2"," ","y","e","a","r","s">>

JobEducationKeywords ==
    << <<"b","a","c","h","e","l","o","r">>, <<"m","a","s","t","e","r">>, <<"p","h","d">>, <<"b",".","t","e","c","h">>, <<"m",".","t","e","c","h">>, <<"b",".","e",".">>, <<"m",".","e",".">>,
       <<"b","s","c">>, <<"m","s","c">>, <<"m","b","a">>, <<"d","e","g","r","e","e">> >>

RECURSIVE Repeated(_, _)
Repeated(item, n) == IF n = 0 THEN <<>> ELSE <<item>> \o Repeated(item, n - 1)

\* JobDescriptionParser._extract_education_requirement: per keyword found,
\* the first sentence that holds it, of a text of one sentence; the first
\* three of them
ExtractEducationRequirement(text) ==
    Slice(Repeated(Strip(text), Len(FoundIn(JobEducationKeywords, Lower(text)))), 0, 3)

\* the Resume a file of the given path and extracted text is parsed into
ParsedResume(file_path, text) ==
    [resume_id |-> GenerateId(text),
     candidate_name |-> ExtractName(text),
     email |-> ExtractEmail(text),
     phone |-> ExtractPhone(text),
     skills |-> ExtractSkills(text),
     experience |-> ExtractExperience(text),
     education |-> ExtractEducation(text),
     projects |-> ExtractProjects(text),
     certifications |-> ExtractCertifications(text),
     resume_text |-> text,
     file_path |-> file_path]

\* s.endswith(suffix)
EndsWith(s, suffix) ==
    Len(s) >= Len(suffix) /\ SubSeq(s, Len(s) - Len(suffix) + 1, Len(s)) = suffix

\* ResumeParser.parse of a file: its path, and the text extract_text_from_pdf
\* or extract_text_from_docx gets out of it, stripped (the empty text for a
\* file they cannot read)
ResumeParserParse(file) ==
    IF EndsWith(file.file_path, <<".","p","d","f">>) \/ EndsWith(file.file_path, <<".","d","o","c","x">>)
    THEN [outcome |-> "returned", resume |-> ParsedResume(file.file_path, Strip(file.text))]
    ELSE [outcome |-> "raised", resume |-> <<>>]

\* JobDescriptionParser.parse
JobDescriptionParserParse(jd_text, company, location) ==
    [job_id |-> Md5Hex10(jd_text),
     company |-> company,
     role_title |-> ExtractRoleTitle(jd_text),
     required_skills |-> ExtractRequiredSkills(jd_text),
     preferred_skills |-> ExtractPreferredSkills(jd_text),
     experience_required |-> ExtractExperienceRequirement(jd_text),
     education |-> ExtractEducationRequirement(jd_text),
     location |-> location,
     description_text |-> jd_text]

\* the parse of each file and of each job description of the model,
\* computed once
ParsedFiles ==
    [file \in SystemFiles \cup {TempFile(upload) : upload \in Uploads} |->
        ResumeParserParse(file)]

ParsedJobs ==
    [jd_text \in JobTexts, company \in Companies, location \in Locations |->
        JobDescriptionParserParse(jd_text, company, location)]


\* the skills of the jobs of the model, built by hand or parsed from a text
JobSkills ==
    UNION {Range(l) : l \in HardRequiredLists \cup HardPreferredLists}
    \cup UNION {Range(ExtractRequiredSkills(text)) : text \in JobTexts}

\* the skills of the resumes of the model, built by hand or parsed
ResumeSkills ==
    UNION {Range(l) : l \in HardResumeSkillLists}
    \cup UNION {Range(ExtractSkills(text)) : text \in ResumeTexts}
(***************************************************************************)
(* ScoringEngine._hard_match_scoring                                       *)
(*                                                                         *)
(* The string functions are evaluated once per argument of the model and   *)
(* held in tables (PartialRatios, ExperienceYears, EducationMatches,       *)
(* InCertifications, FitRaisesOn, Fits, OwnSimilarityAbove); the scoring   *)
(* operators read the tables.                                              *)
(***************************************************************************)
SkillPairs == {<<skill, res_skill>> : skill \in JobSkills, res_skill \in ResumeSkills}

\* fuzz.partial_ratio(skill.lower(), res_skill.lower())
PartialRatios == [p \in SkillPairs |-> PartialRatio(Lower(p[1]), Lower(p[2]))]

AllInsteadOfAny(skill, skills) ==
    \A i \in 1..Len(skills) : PartialRatios[<<skill, skills[i]>>] > 80

\* any(fuzz.partial_ratio(skill.lower(), res_skill.lower()) > 80
\*     for res_skill in resume.skills)
SkillMatches(skill, skills) ==
    \E i \in 1..Len(skills) : PartialRatios[<<skill, skills[i]>>] > 80

RequiredStepNoElse(acc, skill, resume_skills, n) ==
    IF SkillMatches(skill, resume_skills)
    THEN [acc EXCEPT !.matching = Append(@, skill),
                     !.missing = Append(@, skill),
                     !.score = @ + (Points(30) \div n)]
    ELSE [acc EXCEPT !.missing = Append(@, skill)]

RequiredStepFortyPoints(acc, skill, resume_skills, n) ==
    IF SkillMatches(skill, resume_skills)
    THEN [acc EXCEPT !.matching = Append(@, skill),
                     !.score = @ + (Points(40) \div n)]
    ELSE [acc EXCEPT !.missing = Append(@, skill)]

\* one iteration of the loop over jd.required_skills
RequiredStep(acc, skill, resume_skills, n) ==
    IF SkillMatches(skill, resume_skills)
    THEN [acc EXCEPT !.matching = Append(@, skill),
                     !.score = @ + (Points(30) \div n)]
    ELSE [acc EXCEPT !.missing = Append(@, skill)]

PreferredStepCountsMissing(acc, skill, resume_skills, n) ==
    IF SkillMatches(skill, resume_skills)
    THEN [acc EXCEPT !.matching = Append(@, skill),
                     !.score = @ + (Points(10) \div n)]
    ELSE [acc EXCEPT !.missing = Append(@, skill)]

\* one iteration of the loop over jd.preferred_skills
PreferredStep(acc, skill, resume_skills, n) ==
    IF SkillMatches(skill, resume_skills)
    THEN [acc EXCEPT !.matching = Append(@, skill),
                     !.score = @ + (Points(10) \div n)]
    ELSE acc

RECURSIVE RequiredLoop(_, _, _, _)
RequiredLoop(acc, rest, resume_skills, n) ==
    IF rest = <<>> THEN acc
    ELSE RequiredLoop(RequiredStep(acc, Head(rest), resume_skills, n),
                      Tail(rest), resume_skills, n)

RECURSIVE PreferredLoop(_, _, _, _)
PreferredLoop(acc, rest, resume_skills, n) ==
    IF rest = <<>> THEN acc
    ELSE PreferredLoop(PreferredStep(acc, Head(rest), resume_skills, n),
                       Tail(rest), resume_skills, n)

\* the two skill loops
SkillLoops(resume, jd) ==
    LET req == RequiredLoop([score |-> 0, matching |-> <<>>, missing |-> <<>>],
                            jd.required_skills, resume.skills, Len(jd.required_skills))
    IN  PreferredLoop(req, jd.preferred_skills, resume.skills, Len(jd.preferred_skills))

RECURSIVE DigitsValue(_, _)
\* the value of the leading run of digits of s, after the digits read so far
DigitsValue(s, sofar) ==
    IF s = <<>> \/ ~IsDigit(Head(s)) THEN sofar
    ELSE DigitsValue(Tail(s), 10 * sofar + DigitValue(Head(s)))

RECURSIVE ParseExperienceYears(_)
\* numbers = re.findall(r'\d+', exp_string);
\* float(numbers[0]) if numbers else 0
ParseExperienceYears(exp_string) ==
    IF exp_string = <<>> THEN 0
    ELSE IF IsDigit(Head(exp_string)) THEN DigitsValue(exp_string, 0)
    ELSE ParseExperienceYears(Tail(exp_string))

ExperienceStrings ==
    HardResumeExperience \cup HardJobExperience
    \cup {ExtractExperience(text) : text \in ResumeTexts}
    \cup {ExtractExperienceRequirement(text) : text \in JobTexts}

ExperienceYears == [s \in ExperienceStrings |-> ParseExperienceYears(s)]

ExperiencePointsPartialOnly(resume, jd) ==
    LET jd_exp == ExperienceYears[jd.experience_required]
        resume_exp == ExperienceYears[resume.experience]
    IN  IF 10 * resume_exp >= 7 * jd_exp THEN Points(10)
        ELSE 0

ExperiencePointsStrict(resume, jd) ==
    LET jd_exp == ExperienceYears[jd.experience_required]
        resume_exp == ExperienceYears[resume.experience]
    IN  IF resume_exp > jd_exp THEN Points(20)
        ELSE IF 10 * resume_exp > 7 * jd_exp THEN Points(10)
        ELSE 0

\* the experience points: 20, 10 (resume_exp >= jd_exp * 0.7) or 0
ExperiencePoints(resume, jd) ==
    LET jd_exp == ExperienceYears[jd.experience_required]
        resume_exp == ExperienceYears[resume.experience]
    IN  IF resume_exp >= jd_exp THEN Points(20)
        ELSE IF 10 * resume_exp >= 7 * jd_exp THEN Points(10)
        ELSE 0

EducationKeywords ==
    { <<"b","a","c","h","e","l","o","r">>, <<"m","a","s","t","e","r">>, <<"p","h","d">>, <<"b",".","t","e","c","h">>, <<"m",".","t","e","c","h">>, <<"b",".","e",".">>, <<"m",".","e",".">> }

MatchEducationCaseSensitive(resume_edu, jd_edu) ==
    IF jd_edu = <<>> THEN TRUE
    ELSE \E k \in EducationKeywords :
            Contains(Join(resume_edu), k) /\ Contains(Join(jd_edu), k)

\* ScoringEngine._match_education
MatchEducation(resume_edu, jd_edu) ==
    IF jd_edu = <<>> THEN TRUE
    ELSE LET resume_text == Lower(Join(resume_edu))
             jd_text == Lower(Join(jd_edu))
         IN  \E k \in EducationKeywords : Contains(resume_text, k) /\ Contains(jd_text, k)

EducationPairs ==
    {<<resume_edu, jd_edu>> : resume_edu \in HardResumeEducation, jd_edu \in HardJobEducation}

EducationMatches == [p \in EducationPairs |-> MatchEducation(p[1], p[2])]

ProjectText(resume) == Join(resume.projects)

SkillText(jd) == Join(jd.required_skills \o jd.preferred_skills)

TextPairs ==
    {<<Join(projects), Join(required \o preferred)>> :
        projects \in ProjectLists, required \in HardRequiredLists,
        preferred \in HardPreferredLists}

FitRaisesOn == [p \in TextPairs |-> FitRaises(p[1], p[2])]

Fits == [p \in TextPairs |-> Fit(p[1], p[2])]

\* the similarity test of a call whose transform reads its own fit
OwnSimilarityAbove ==
    [p \in TextPairs |-> ~FitRaises(p[1], p[2]) /\ SimilarityAbove(Fit(p[1], p[2]), p[1], p[2])]

\* the writes of self.tfidf_vectorizer.fit_transform([text1, text2]): the
\* vocabulary and idf of the call's two documents replace what the
\* vectorizer held
FitTransformFit(vectorizer, text1, text2) == Fits[<<text1, text2>>]

\* the read of fit_transform, and the comparison of its caller: the
\* documents are weighted with the idf the vectorizer holds when the
\* transform runs; False after an exception (return 0)
TransformAbove(vectorizer, text1, text2) ==
    IF vectorizer = Fits[<<text1, text2>>] THEN OwnSimilarityAbove[<<text1, text2>>]
    ELSE ~TransformRaises(vectorizer, text1, text2)
         /\ SimilarityAbove(vectorizer, text1, text2)

TextSimilarityStale(vectorizer, text1, text2) ==
    IF FitRaisesOn[<<text1, text2>>]
    THEN [above |-> FALSE, vectorizer |-> vectorizer]
    ELSE [above |-> TransformAbove(vectorizer, text1, text2),
          vectorizer |-> FitTransformFit(vectorizer, text1, text2)]

\* ScoringEngine._text_similarity run without interruption, as far as its
\* caller reads it: whether the similarity exceeds 0.3 (0 after any
\* exception), and the state the shared vectorizer is left in
TextSimilarity(vectorizer, text1, text2) ==
    IF FitRaisesOn[<<text1, text2>>]
    THEN [above |-> FALSE, vectorizer |-> vectorizer]
    ELSE LET fitted == FitTransformFit(vectorizer, text1, text2)
         IN  [above |-> TransformAbove(fitted, text1, text2), vectorizer |-> fitted]

CertificationPairs ==
    {<<certifications, skill>> : certifications \in CertificationLists, skill \in JobSkills}

\* skill.lower() in cert_text.lower(), cert_text = ' '.join(certifications)
InCertifications ==
    [p \in CertificationPairs |-> Contains(Lower(Join(p[1])), Lower(p[2]))]

RECURSIVE CertificationLoopFirstOnly(_, _, _)
RECURSIVE CertificationLoop(_, _, _)
CertificationLoopFirstOnly(score, rest, certifications) ==
    IF rest = <<>> THEN score
    ELSE IF InCertifications[<<certifications, Head(rest)>>] THEN score + Points(5)
    ELSE CertificationLoopFirstOnly(score, Tail(rest), certifications)

\* the loop over required + preferred skills: 5 points per skill found in
\* the certification text, leaving the loop once the score reaches 100
CertificationLoop(score, rest, certifications) ==
    IF rest = <<>> THEN score
    ELSE IF InCertifications[<<certifications, Head(rest)>>]
         THEN IF score + Points(5) >= Points(100) THEN score + Points(5)
              ELSE CertificationLoop(score + Points(5), Tail(rest), certifications)
         ELSE CertificationLoop(score, Tail(rest), certifications)

\* the running score when the certifications block is reached: the skills,
\* experience, education and projects points; sim is the project similarity
\* (whether it exceeds 0.3, and the vectorizer after it)
BeforeCertifications(skills_acc, resume, jd, sim) ==
    LET s3 == skills_acc.score + ExperiencePoints(resume, jd)
        s4 == IF EducationMatches[<<resume.education, jd.education>>]
              THEN s3 + Points(20) ELSE s3
    IN  IF resume.projects # <<>> /\ sim.above THEN s4 + Points(10) ELSE s4

\* the certifications block entered with the given running score
CertificationBlock(score, resume, jd) ==
    IF resume.certifications # <<>>
    THEN CertificationLoop(score, jd.required_skills \o jd.preferred_skills,
                           resume.certifications)
    ELSE score

\* the rest of _hard_match_scoring once the project similarity sim is known
HardMatchFinish(skills_acc, resume, jd, sim) ==
    [score |-> Min2(CertificationBlock(BeforeCertifications(skills_acc, resume, jd, sim),
                                       resume, jd),
                    Points(100)),
     matching |-> skills_acc.matching,
     missing |-> skills_acc.missing,
     vectorizer |-> sim.vectorizer]

\* the projects block run without interruption: _text_similarity is
\* called only for a resume with projects
ProjectSimilarity(vectorizer, resume, jd) ==
    IF resume.projects # <<>>
    THEN TextSimilarity(vectorizer, ProjectText(resume), SkillText(jd))
    ELSE [above |-> FALSE, vectorizer |-> vectorizer]

\* _hard_match_scoring on the engine's vectorizer: the score, the skill
\* analysis, and the vectorizer as the call leaves it
HardMatchScoring(vectorizer, resume, jd) ==
    HardMatchFinish(SkillLoops(resume, jd), resume, jd,
                    ProjectSimilarity(vectorizer, resume, jd))

(***************************************************************************)
(* ScoringEngine._soft_match_scoring                                       *)
(***************************************************************************)
\* cosine_similarity of the two embeddings, in 1/100000.  The embedding
\* model is an external capability: a fixed function of the two texts,
\* here a stub with one value per pair of texts of the model (a negative
\* one among them: cosine similarity ranges over [-1, 1]); equal texts
\* have equal embeddings, of cosine similarity 1.
CosineSimilarity(resume_text, jd_text) ==
    CASE resume_text = jd_text -> 100000
      [] resume_text = ResumeTextA /\ jd_text = JobTextA -> 83324
      [] resume_text = ResumeTextB /\ jd_text = JobTextA -> -8000
      [] OTHER -> 4000

Texts == ResumeTexts \cup JobTexts

\* the filtered tokens of each text of the model
Tokens == [text \in Texts |-> FilteredTokens(text)]

\* BM25Okapi([resume_tokens]) raises ZeroDivisionError on a corpus with no
\* term: average_idf = idf_sum / len(self.idf)
BM25Raises(resume_tokens) == resume_tokens = <<>>

\* The idf of every term of the one-document corpus, in 1/100000:
\* ln(1 - 1 + 0.5) - ln(1 + 0.5) = -1.09861 is negative and is replaced by
\* epsilon * average_idf = 0.25 * -1.09861
BM25Idf == -27465

RECURSIVE BM25GetScores(_, _)
\* bm25.get_scores(query)[0] in 1/100000: per query token
\* idf * f * (k1 + 1) / (f + k1 * (1 - b + b * doc_len / avgdl)) with
\* k1 = 1.5, b = 0.75 and doc_len = avgdl, f the token's count in the resume
BM25GetScores(resume_tokens, query) ==
    IF query = <<>> THEN 0
    ELSE LET f == Count(resume_tokens, Head(query))
         IN  (IF f = 0 THEN 0 ELSE (BM25Idf * 5 * f) \div (2 * f + 3))
             + BM25GetScores(resume_tokens, Tail(query))

\* ScoringEngine._calculate_bm25_score, for resume tokens that do not make
\* the constructor raise
CalculateBM25Score(resume_text, jd_text) ==
    LET resume_tokens == Tokens[resume_text]
        jd_tokens == Tokens[jd_text]
        score == BM25GetScores(resume_tokens, jd_tokens)
        max_possible == BM25GetScores(resume_tokens, resume_tokens)
    IN  IF max_possible > 0 THEN (score * Points(100)) \div max_possible ELSE 0

\* whether _soft_match_scoring raises: encode raised, or BM25Okapi did
SoftMatchRaises(resume, jd, encode_raises) ==
    encode_raises \/ BM25Raises(Tokens[resume.resume_text])

\* min((score * 0.7) + (bm25_score * 0.3), 100)
SoftMatchScoring(resume, jd) ==
    LET score == CosineSimilarity(resume.resume_text, jd.description_text)
                    * (ScoreUnit \div 1000)
        bm25_score == CalculateBM25Score(resume.resume_text, jd.description_text)
    IN  Min2((7 * score + 3 * bm25_score) \div 10, Points(100))

(***************************************************************************)
(* Verdict and suggestions                                                 *)
(***************************************************************************)
DetermineVerdictStrict(score) ==
    IF score > Points(75) THEN "High"
    ELSE IF score > Points(50) THEN "Medium"
    ELSE "Low"

\* ScoringEngine._determine_verdict
DetermineVerdict(score) ==
    IF score >= Points(75) THEN "High"
    ELSE IF score >= Points(50) THEN "Medium"
    ELSE "Low"

Suggestion(kind, detail) == [kind |-> kind, detail |-> detail]

ClosingKinds == {"needs_improvement", "moderately_suitable", "highly_suitable"}

AllSuggestionsEveryMissing(resume, jd, skill_analysis, score) ==
    LET jd_exp == ExperienceYears[jd.experience_required]
        resume_exp == ExperienceYears[resume.experience]
    IN  (IF skill_analysis.missing # <<>>
         THEN <<Suggestion("missing_skills", skill_analysis.missing)>>
         ELSE <<>>)
        \o (IF resume_exp < jd_exp
            THEN <<Suggestion("experience", <<jd_exp, resume_exp>>)>> ELSE <<>>)
        \o (IF resume.projects = <<>> \/ Len(resume.projects) < 2
            THEN <<Suggestion("projects", <<>>)>> ELSE <<>>)
        \o (IF resume.certifications = <<>>
            THEN <<Suggestion("certifications", <<>>)>> ELSE <<>>)
        \o (IF score < Points(50)
            THEN <<Suggestion("needs_improvement", <<>>), Suggestion("core_skills", <<>>)>>
            ELSE IF score < Points(75)
            THEN <<Suggestion("moderately_suitable", <<>>)>>
            ELSE <<Suggestion("highly_suitable", <<>>)>>)

\* the suggestions before the final slice
AllSuggestions(resume, jd, skill_analysis, score) ==
    LET jd_exp == ExperienceYears[jd.experience_required]
        resume_exp == ExperienceYears[resume.experience]
    IN  (IF skill_analysis.missing # <<>>
         THEN <<Suggestion("missing_skills", Slice(skill_analysis.missing, 0, 5))>>
         ELSE <<>>)
        \o (IF resume_exp < jd_exp
            THEN <<Suggestion("experience", <<jd_exp, resume_exp>>)>> ELSE <<>>)
        \o (IF resume.projects = <<>> \/ Len(resume.projects) < 2
            THEN <<Suggestion("projects", <<>>)>> ELSE <<>>)
        \o (IF resume.certifications = <<>>
            THEN <<Suggestion("certifications", <<>>)>> ELSE <<>>)
        \o (IF score < Points(50)
            THEN <<Suggestion("needs_improvement", <<>>), Suggestion("core_skills", <<>>)>>
            ELSE IF score < Points(75)
            THEN <<Suggestion("moderately_suitable", <<>>)>>
            ELSE <<Suggestion("highly_suitable", <<>>)>>)

GenerateSuggestionsFirstFour(resume, jd, skill_analysis, score) ==
    Slice(AllSuggestions(resume, jd, skill_analysis, score), 0, 4)

\* ScoringEngine._generate_suggestions: suggestions[:5]
GenerateSuggestions(resume, jd, skill_analysis, score) ==
    Slice(AllSuggestions(resume, jd, skill_analysis, score), 0, 5)

(***************************************************************************)
(* ScoringEngine.calculate_relevance_score                                 *)
(***************************************************************************)
ReturnedVerdictOfRounded(hard, soft_score, final_score, resume, jd) ==
    [outcome |-> "returned", vectorizer |-> hard.vectorizer,
     hard_score |-> hard.score, soft_score |-> soft_score, final_score |-> final_score,
     result |->
        [relevance_score |-> Round2(final_score),
         hard_match_score |-> Round2(hard.score),
         soft_match_score |-> Round2(soft_score),
         missing_skills |-> hard.missing,
         matching_skills |-> hard.matching,
         verdict |-> DetermineVerdict(Hundredths(Round2(final_score))),
         suggestions |->
             GenerateSuggestions(resume, jd,
                                 [matching |-> hard.matching, missing |-> hard.missing],
                                 final_score)]]

\* The EvaluationResult built from the three unrounded scores; its scores
\* are in hundredths of a point (round(x, 2))
Returned(hard, soft_score, final_score, resume, jd) ==
    [outcome |-> "returned", vectorizer |-> hard.vectorizer,
     hard_score |-> hard.score, soft_score |-> soft_score, final_score |-> final_score,
     result |->
        [relevance_score |-> Round2(final_score),
         hard_match_score |-> Round2(hard.score),
         soft_match_score |-> Round2(soft_score),
         missing_skills |-> hard.missing,
         matching_skills |-> hard.matching,
         verdict |-> DetermineVerdict(final_score),
         suggestions |->
             GenerateSuggestions(resume, jd,
                                 [matching |-> hard.matching, missing |-> hard.missing],
                                 final_score)]]

\* final_score = (hard_score * 0.4) + (soft_score * 0.6), and what follows
Combined(hard, soft_score, resume, jd) ==
    Returned(hard, soft_score, (4 * hard.score + 6 * soft_score) \div 10, resume, jd)

\* The call after _hard_match_scoring has returned hard: what it returns
\* or that it raised, the unrounded scores it computed on the way, and the
\* vectorizer as the call leaves it
AfterHardMatch(hard, resume, jd, encode_raises) ==
    IF SoftMatchRaises(resume, jd, encode_raises)
    THEN [outcome |-> "raised", vectorizer |-> hard.vectorizer,
          hard_score |-> hard.score, soft_score |-> 0, final_score |-> 0,
          result |-> <<>>]
    ELSE Combined(hard, SoftMatchScoring(resume, jd), resume, jd)

\* The call, run without interruption on an engine whose vectorizer is in
\* the given state
CalculateRelevanceScore(vectorizer, resume, jd, encode_raises) ==
    AfterHardMatch(HardMatchScoring(vectorizer, resume, jd), resume, jd, encode_raises)

(***************************************************************************)
(* The engine                                                              *)
(***************************************************************************)
VARIABLES
    tfidf_vectorizer,   \* self.tfidf_vectorizer of the one ScoringEngine
    evaluated,          \* the arguments of the latest call, <<>> before it
    scores,             \* the unrounded scores the latest call computed
    status,             \* "idle", "returned" or "raised"
    evaluation,         \* the EvaluationResult returned, <<>> if none
    remembered,         \* a call of the past and what it returned, <<>> if none
    workers,            \* the calls running concurrently, one per worker
    verdict_score,      \* the argument of _determine_verdict
    verdict_returned,   \* what _determine_verdict returned, "none" before
    models_loaded,      \* the SentenceTransformer instances loaded by the process
    constructed,        \* the objects constructed by the process, in order
    jobs_table,         \* table job_descriptions of the database
    resumes_table,      \* table resumes of the database
    evaluations_table,  \* table evaluations of the database
    last_call,          \* the latest call on the system or the database
    api_response        \* the response of the latest API request

\* the state around the engine: the process, the database, the API
system_vars ==
    <<models_loaded, constructed, jobs_table, resumes_table, evaluations_table,
      last_call, api_response>>

vars ==
    <<tfidf_vectorizer, evaluated, scores, status, evaluation, remembered, workers,
      verdict_score, verdict_returned, system_vars>>

\* nothing constructed, an empty database, no call and no request yet
SystemInit ==
    /\ models_loaded = 0
    /\ constructed = <<>>
    /\ jobs_table = {}
    /\ resumes_table = {}
    /\ evaluations_table = {}
    /\ last_call = <<>>
    /\ api_response = <<>>

NoLocals == [hard_score |-> 0, soft_score |-> 0, final_score |-> 0]

\* ScoringEngine.__init__, before any call
EngineInit ==
    /\ tfidf_vectorizer = Unfitted
    /\ evaluated = <<>>
    /\ scores = NoLocals
    /\ status = "idle"
    /\ evaluation = <<>>
    /\ remembered = <<>>
    /\ workers = <<>>
    /\ verdict_score = 0
    /\ verdict_returned = "none"

Init == EngineInit /\ SystemInit

\* one call of calculate_relevance_score; encode_raises is the embedding
\* capability failing during this call
Evaluate(resume, jd, encode_raises) ==
    \E r \in {CalculateRelevanceScore(tfidf_vectorizer, resume, jd, encode_raises)} :
        /\ evaluated' = [resume |-> resume, jd |-> jd, encode_raises |-> encode_raises]
        /\ tfidf_vectorizer' = r.vectorizer
        /\ scores' = [hard_score |-> r.hard_score, soft_score |-> r.soft_score,
                      final_score |-> r.final_score]
        /\ status' = r.outcome
        /\ evaluation' = r.result
        /\ UNCHANGED <<workers, verdict_score, verdict_returned,
                   system_vars>>

\* a fresh engine serves one call, of any resume and job of the model
Next ==
    /\ status = "idle"
    /\ \E resume \in Resumes, jd \in Jobs, encode_raises \in BOOLEAN :
          Evaluate(resume, jd, encode_raises) /\ UNCHANGED remembered

Spec == Init /\ [][Next]_vars

(***************************************************************************)
(* The engine serving calls one after the other.  One call of the past is  *)
(* remembered with what it returned, and whether a call with other         *)
(* arguments has run since.                                                *)
(***************************************************************************)
SeqResumes ==
    {r \in Resumes :
        /\ r.skills = <<<<"R","u","s","t">>, <<"P","y","t","h","o","n","3">>>>
        /\ r.experience = <<"9"," ","y","r","s">>
        /\ r.education = <<>>
        /\ r.certifications = <<>>
        /\ r.resume_text = ResumeTextA}

SeqJobs ==
    {j \in Jobs :
        /\ j.required_skills \in {<<<<"p","y","t","h","o","n">>>>, <<<<"p","y","t","h","o","n">>, <<"r","u","s","t">>>>}
        /\ j.preferred_skills \in {<<>>, <<<<"s","q","l">>>>}
        /\ j.experience_required = <<"2"," ","y","e","a","r","s">>
        /\ j.education = <<>>
        /\ j.description_text = JobTextA}

\* the history kept beside a call with the given arguments
NoteCall(resume, jd) ==
    remembered' =
        IF remembered # <<>> /\ (remembered.resume # resume \/ remembered.jd # jd)
        THEN [remembered EXCEPT !.between = TRUE]
        ELSE remembered

\* the latest call becomes the remembered one
Remember ==
    /\ remembered = <<>>
    /\ status # "idle"
    /\ remembered' = [resume |-> evaluated.resume, jd |-> evaluated.jd,
                      outcome |-> status, returned |-> evaluation, between |-> FALSE]
    /\ UNCHANGED <<tfidf_vectorizer, evaluated, scores, status, evaluation, workers,
                   verdict_score, verdict_returned,
                   system_vars>>

SeqNext ==
    \/ \E resume \in SeqResumes, jd \in SeqJobs :
          Evaluate(resume, jd, FALSE) /\ NoteCall(resume, jd)
    \/ Remember

SpecSeq == Init /\ [][SeqNext]_vars

(***************************************************************************)
(* Calls running concurrently on the one engine (a worker pool).  A call   *)
(* touches the engine's state twice, both times inside fit_transform: the  *)
(* fit writes the vectorizer, the transform then reads it.  What lies      *)
(* between and around the two is local to the call.                        *)
(***************************************************************************)
NumWorkers == 2

Workers == 1..NumWorkers

ConcResumes == {r \in SeqResumes : r.projects # <<>>}

ConcJobs == {j \in SeqJobs : j.preferred_skills = <<>>}

IdleWorker == [pc |-> "idle", resume |-> <<>>, jd |-> <<>>, outcome |-> "none", returned |-> <<>>]

ConcInit ==
    /\ tfidf_vectorizer = Unfitted
    /\ evaluated = <<>>
    /\ scores = NoLocals
    /\ status = "idle"
    /\ evaluation = <<>>
    /\ remembered = <<>>
    /\ workers = [w \in Workers |-> IdleWorker]
    /\ verdict_score = 0
    /\ verdict_returned = "none"
    /\ SystemInit

\* whether the call of the given arguments reaches a fit that succeeds
Fitting(resume, jd) ==
    resume.projects # <<>> /\ ~FitRaisesOn[<<ProjectText(resume), SkillText(jd)>>]

\* a worker enters calculate_relevance_score
Enter(w, resume, jd) ==
    /\ workers[w].pc = "idle"
    /\ workers' = [workers EXCEPT ![w] = [@ EXCEPT !.pc = "entered",
                                                    !.resume = resume, !.jd = jd]]
    /\ UNCHANGED <<tfidf_vectorizer, evaluated, scores, status, evaluation, remembered,
                   verdict_score, verdict_returned,
                   system_vars>>

\* the call up to and including the fit of fit_transform
FitStep(w) ==
    /\ workers[w].pc = "entered"
    /\ tfidf_vectorizer' =
          IF Fitting(workers[w].resume, workers[w].jd)
          THEN FitTransformFit(tfidf_vectorizer, ProjectText(workers[w].resume),
                               SkillText(workers[w].jd))
          ELSE tfidf_vectorizer
    /\ workers' = [workers EXCEPT ![w] = [@ EXCEPT !.pc = "fitted"]]
    /\ UNCHANGED <<evaluated, scores, status, evaluation, remembered,
                   verdict_score, verdict_returned,
                   system_vars>>

\* the project similarity of a call whose transform reads the vectorizer
\* in the given state
InterleavedSimilarity(vectorizer, resume, jd) ==
    [above |-> /\ Fitting(resume, jd)
               /\ TransformAbove(vectorizer, ProjectText(resume), SkillText(jd)),
     vectorizer |-> vectorizer]

\* the transform of fit_transform, on the vectorizer as it is now, and the
\* rest of the call
TransformStep(w) ==
    /\ workers[w].pc = "fitted"
    /\ \E r \in {AfterHardMatch(
                    HardMatchFinish(SkillLoops(workers[w].resume, workers[w].jd),
                                    workers[w].resume, workers[w].jd,
                                    InterleavedSimilarity(tfidf_vectorizer,
                                                          workers[w].resume,
                                                          workers[w].jd)),
                    workers[w].resume, workers[w].jd, FALSE)} :
          workers' = [workers EXCEPT ![w] = [@ EXCEPT !.pc = "done",
                                                          !.outcome = r.outcome,
                                                          !.returned = r.result]]
    /\ UNCHANGED <<tfidf_vectorizer, evaluated, scores, status, evaluation,
                   remembered, verdict_score, verdict_returned,
                   system_vars>>

ConcNext ==
    \E w \in Workers :
        \/ \E resume \in ConcResumes, jd \in ConcJobs : Enter(w, resume, jd)
        \/ FitStep(w)
        \/ TransformStep(w)

SpecConc == ConcInit /\ [][ConcNext]_vars

(***************************************************************************)
(* _determine_verdict on the scores around its two thresholds              *)
(***************************************************************************)
VerdictWindow == 15

\* scores in hundredths of a point around 50 and 75, the two ends of the
\* scale, and the unrounded scores just below the thresholds
VerdictScores ==
    {Hundredths(h) : h \in ((5000 - VerdictWindow)..(5000 + VerdictWindow))
                            \cup ((7500 - VerdictWindow)..(7500 + VerdictWindow))
                            \cup {0, 10000}}
    \cup {Points(50) - 1, Points(75) - 1}

VerdictInit ==
    /\ tfidf_vectorizer = Unfitted
    /\ evaluated = <<>>
    /\ scores = NoLocals
    /\ status = "idle"
    /\ evaluation = <<>>
    /\ remembered = <<>>
    /\ workers = <<>>
    /\ verdict_score \in VerdictScores
    /\ verdict_returned = "none"
    /\ SystemInit

\* one call of _determine_verdict
Determine ==
    /\ verdict_returned = "none"
    /\ SystemInit
    /\ verdict_returned' = DetermineVerdict(verdict_score)
    /\ UNCHANGED <<tfidf_vectorizer, evaluated, scores, status, evaluation, remembered,
                   workers, verdict_score,
                   system_vars>>

VerdictNext == Determine

SpecVerdict == VerdictInit /\ [][VerdictNext]_vars

(***************************************************************************)
(* Properties                                                              *)
(***************************************************************************)
\* C1: the three scores of every EvaluationResult returned by
\* calculate_relevance_score lie within [0, 100], also when the cosine
\* similarity of the embeddings is negative and no hard-match criterion is
\* met.  (Scores of the result are in hundredths.)
C1_ScoresWithinRange ==
    status = "returned" =>
        /\ evaluation.hard_match_score \in 0..10000
        /\ evaluation.soft_match_score \in 0..10000
        /\ evaluation.relevance_score \in 0..10000

\* C2: in every EvaluationResult returned, the verdict agrees with the
\* reported relevance_score: High iff relevance_score >= 75, Medium iff
\* 50 <= relevance_score < 75, Low iff relevance_score < 50.
C2_VerdictAgreesWithRelevanceScore ==
    status = "returned" =>
        /\ (evaluation.verdict = "High") = (evaluation.relevance_score >= 7500)
        /\ (evaluation.verdict = "Medium") =
              (evaluation.relevance_score >= 5000 /\ evaluation.relevance_score < 7500)
        /\ (evaluation.verdict = "Low") = (evaluation.relevance_score < 5000)

\* C3: when encode or the BM25 call raises during a call, no exception
\* escapes: the call returns an EvaluationResult whose failed sub-score
\* counts as 0, with the hard score and the skill lists computed as usual.
C3_SoftMatchFailureDoesNotEscape ==
    (status # "idle"
       /\ (evaluated.encode_raises \/ BM25Raises(Tokens[evaluated.resume.resume_text])))
    => /\ status = "returned"
       /\ evaluation.hard_match_score = Round2(scores.hard_score)
       /\ evaluated.encode_raises => evaluation.soft_match_score = 0

\* a resume or job with an empty text or an empty list
Degenerate(resume, jd) ==
    \/ resume.resume_text = EmptyText
    \/ jd.description_text = EmptyText
    \/ resume.skills = <<>>
    \/ resume.education = <<>>
    \/ resume.projects = <<>>
    \/ resume.certifications = <<>>
    \/ jd.required_skills = <<>>
    \/ jd.preferred_skills = <<>>
    \/ jd.education = <<>>

\* C4: a call whose capabilities work returns an EvaluationResult for
\* every degenerate input shape: an empty text, an empty list.
C4_DegenerateInputsReturn ==
    (status # "idle" /\ ~evaluated.encode_raises
       /\ Degenerate(evaluated.resume, evaluated.jd))
    => status = "returned"

\* C5: each occurrence of a required skill is in exactly one of
\* matching_skills and missing_skills (all occurrences of one string on the
\* same side, the matching side also holding its preferred occurrences), no
\* string is in both lists, missing_skills holds required skills only and
\* matching_skills holds required or preferred skills only, however often
\* a resume skill is repeated.
C5_SkillsPartitioned ==
    status = "returned" =>
        /\ \A skill \in Range(evaluated.jd.required_skills) :
              \/ /\ Count(evaluation.missing_skills, skill)
                       = Count(evaluated.jd.required_skills, skill)
                 /\ Count(evaluation.matching_skills, skill) = 0
              \/ /\ Count(evaluation.missing_skills, skill) = 0
                 /\ Count(evaluation.matching_skills, skill)
                       = Count(evaluated.jd.required_skills, skill)
                         + Count(evaluated.jd.preferred_skills, skill)
        /\ Range(evaluation.matching_skills) \cap Range(evaluation.missing_skills) = {}
        /\ Range(evaluation.missing_skills) \subseteq Range(evaluated.jd.required_skills)
        /\ Range(evaluation.matching_skills)
              \subseteq Range(evaluated.jd.required_skills \o evaluated.jd.preferred_skills)

\* a call on a resume that repeats a skill has returned with one required
\* skill matching and another missing
C5_Witness ==
    /\ status = "returned"
    /\ evaluated.resume.skills = <<<<"P","y","t","h","o","n","3">>, <<"P","y","t","h","o","n","3">>>>
    /\ evaluation.matching_skills # <<>>
    /\ evaluation.missing_skills # <<>>

\* C6: the suggestions of every EvaluationResult returned number between 1
\* and 5 and hold at least one score-banded closing suggestion, also when
\* all four conditional suggestions fire and the score is below 50.
C6_SuggestionsBoundedWithClosing ==
    status = "returned" =>
        /\ Len(evaluation.suggestions) \in 1..5
        /\ \E i \in 1..Len(evaluation.suggestions) :
              evaluation.suggestions[i].kind \in ClosingKinds

\* a call has returned the four conditional suggestions followed by the
\* first of the two closing suggestions of a score below 50
C6_Witness ==
    /\ status = "returned"
    /\ scores.final_score < Points(50)
    /\ Len(evaluation.suggestions) = 5
    /\ evaluation.suggestions[1].kind = "missing_skills"
    /\ evaluation.suggestions[2].kind = "experience"
    /\ evaluation.suggestions[3].kind = "projects"
    /\ evaluation.suggestions[4].kind = "certifications"
    /\ evaluation.suggestions[5].kind = "needs_improvement"

\* C7: under every interleaving of concurrent calls on one engine, each
\* call returns exactly the EvaluationResult it returns when run alone.
C7_ConcurrentCallsReturnAsAlone ==
    \A w \in DOMAIN workers :
        workers[w].pc = "done" =>
            workers[w].returned
                = CalculateRelevanceScore(Unfitted, workers[w].resume, workers[w].jd,
                                          FALSE).result

\* C8: a call with the arguments of an earlier call on the same engine
\* returns what the earlier call returned, whatever ran in between.
C8_RepeatedCallReturnsSame ==
    (remembered # <<>> /\ status # "idle"
       /\ evaluated.resume = remembered.resume /\ evaluated.jd = remembered.jd)
    => /\ status = remembered.outcome
       /\ evaluation = remembered.returned

\* the remembered call has been repeated after a call with other arguments
\* that refitted the vectorizer, and has returned the same
C8_Witness ==
    /\ remembered # <<>>
    /\ remembered.between
    /\ status = "returned"
    /\ evaluated.resume = remembered.resume
    /\ evaluated.jd = remembered.jd
    /\ evaluated.resume.projects # <<>>
    /\ evaluation = remembered.returned

\* whether the required skill matches no skill of the resume and matches
\* the skill to add
MissingAndMatchedBy(skill, resume_skills, added) ==
    /\ \A i \in 1..Len(resume_skills) : PartialRatios[<<skill, resume_skills[i]>>] <= 80
    /\ PartialRatios[<<skill, added>>] > 80

\* the hard score of the resume with the skill appended to its skills
HardScoreWith(resume, jd, added) ==
    HardMatchScoring(Unfitted, [resume EXCEPT !.skills = Append(@, added)], jd).score

\* C9: appending to resume.skills a skill that fuzzy-matches a required
\* skill no resume skill matches gives a hard score strictly greater than
\* before, or 100 when the score was 100 already.
C9_AddingMissingSkillRaisesHardScore ==
    status # "idle" =>
        \A k \in 1..Len(evaluated.jd.required_skills) : \A added \in ResumeSkills :
            MissingAndMatchedBy(evaluated.jd.required_skills[k],
                                evaluated.resume.skills, added)
            => \/ HardScoreWith(evaluated.resume, evaluated.jd, added) > scores.hard_score
               \/ /\ scores.hard_score = Points(100)
                  /\ HardScoreWith(evaluated.resume, evaluated.jd, added) = Points(100)

\* a call whose resume lacks a required skill scored less than 100 on the
\* hard match, and more with a matching skill appended
C9_Witness ==
    /\ status # "idle"
    /\ scores.hard_score < Points(100)
    /\ \E k \in 1..Len(evaluated.jd.required_skills) : \E added \in ResumeSkills :
          /\ MissingAndMatchedBy(evaluated.jd.required_skills[k],
                                 evaluated.resume.skills, added)
          /\ HardScoreWith(evaluated.resume, evaluated.jd, added) > scores.hard_score

\* C10: _determine_verdict returns High for every score >= 75, Medium for
\* every score with 50 <= score < 75 and Low for every score < 50.
C10_VerdictThresholds ==
    verdict_returned # "none" =>
        /\ verdict_score >= Points(75) => verdict_returned = "High"
        /\ (verdict_score >= Points(50) /\ verdict_score < Points(75))
              => verdict_returned = "Medium"
        /\ verdict_score < Points(50) => verdict_returned = "Low"
        /\ verdict_score = Hundredths(7500) => verdict_returned = "High"
        /\ verdict_score = Hundredths(7499) => verdict_returned = "Medium"
        /\ verdict_score = Hundredths(5000) => verdict_returned = "Medium"
        /\ verdict_score = Hundredths(4999) => verdict_returned = "Low"

\* _determine_verdict has returned High for 75.0
C10_Witness ==
    /\ verdict_score = Hundredths(7500)
    /\ verdict_returned = "High"


\* whether every required skill of the job is fuzzy-matched by some skill
\* of the resume, and the resume has the years the job asks for
RequirementsMet(resume, jd) ==
    /\ \A k \in 1..Len(jd.required_skills) :
          \E i \in 1..Len(resume.skills) :
              PartialRatios[<<jd.required_skills[k], resume.skills[i]>>] > 80
    /\ ExperienceYears[resume.experience] >= ExperienceYears[jd.experience_required]

\* what C16 promises of the result of a call
FullCredit(result, jd) ==
    /\ result.hard_match_score >= 5000
    /\ result.missing_skills = <<>>
    /\ \A k \in 1..Len(jd.required_skills) :
          \E m \in 1..Len(result.matching_skills) :
              result.matching_skills[m] = jd.required_skills[k]

\* C16 as stated: whenever every required skill of the job is fuzzy-matched
\* by some resume skill and resume_years >= job_years, the result has
\* hard_match_score >= 50, no missing skills, and every required skill in
\* matching_skills as the job spells it.
C16_RequirementsMetGivesFifty ==
    (status = "returned" /\ RequirementsMet(evaluated.resume, evaluated.jd))
    => FullCredit(evaluation, evaluated.jd)

\* C16 amended: the same for a job that lists at least one required skill.
\* A job without required skills gets no skill points, so its hard score
\* can be as low as the 20 points of the experience.
C16_RequirementsMetGivesFiftyNonEmpty ==
    (status = "returned" /\ RequirementsMet(evaluated.resume, evaluated.jd)
       /\ evaluated.jd.required_skills # <<>>)
    => FullCredit(evaluation, evaluated.jd)

\* a call whose resume matches both required skills in another spelling
\* and has the years has returned a hard score of exactly 50
C16_Witness ==
    /\ status = "returned"
    /\ evaluated.jd.required_skills = <<<<"p","y","t","h","o","n">>, <<"r","u","s","t">>>>
    /\ evaluated.resume.skills = <<<<"R","u","s","t">>, <<"P","y","t","h","o","n","3">>>>
    /\ RequirementsMet(evaluated.resume, evaluated.jd)
    /\ evaluation.hard_match_score = 5000
    /\ evaluation.matching_skills = <<<<"p","y","t","h","o","n">>, <<"r","u","s","t">>>>

\* the points the certifications block added in the call of the given
\* arguments on a fresh engine
CertificationPoints(resume, jd) ==
    LET before == BeforeCertifications(SkillLoops(resume, jd), resume, jd,
                                       ProjectSimilarity(Unfitted, resume, jd))
    IN  CertificationBlock(before, resume, jd) - before

\* C20: the certifications block adds at most 10 points to the hard score,
\* however many required and preferred skills occur in the certification
\* text.
C20_CertificationsAtMostTen ==
    status # "idle" =>
        CertificationPoints(evaluated.resume, evaluated.jd) <= Points(10)

(***************************************************************************)
(* The process: the objects it constructs (src/core/system.py,             *)
(* src/core/scoring.py).  The API module constructs one                    *)
(* ResumeRelevanceSystem at import, the dashboard one per session, the     *)
(* tests one system or one engine each.                                    *)
(***************************************************************************)
engine_vars ==
    <<tfidf_vectorizer, evaluated, scores, status, evaluation, remembered, workers,
      verdict_score, verdict_returned>>

MaxConstructed == 4

\* ScoringEngine.__init__: SentenceTransformer(embedding_model) loads a
\* model for the engine under construction; the instances of the process
\* are numbered in the order they are loaded
ScoringEngineInit(loaded) == [embedding_model |-> loaded + 1]

\* ResumeRelevanceSystem._get_db_manager under lru_cache(maxsize=1): the
\* first call constructs the DatabaseManager, every later call returns it
GetDbManager == 1

\* ScoringEngine() constructed on its own
ConstructScoringEngine ==
    /\ Len(constructed) < MaxConstructed
    /\ models_loaded' = models_loaded + 1
    /\ constructed' =
          Append(constructed,
                 [class |-> "ScoringEngine",
                  scoring_engine |-> ScoringEngineInit(models_loaded)])
    /\ UNCHANGED <<engine_vars, jobs_table, resumes_table, evaluations_table,
                   last_call, api_response>>

\* the ResumeRelevanceSystem constructed when the process has loaded the
\* given number of models
NewSystem(use_llm, loaded) ==
    [class |-> "ResumeRelevanceSystem",
     scoring_engine |-> ScoringEngineInit(loaded),
     db_manager |-> GetDbManager,
     use_llm |-> use_llm]

\* ResumeRelevanceSystem.__init__
ConstructSystem(use_llm) ==
    /\ Len(constructed) < MaxConstructed
    /\ models_loaded' = models_loaded + 1
    /\ constructed' = Append(constructed, NewSystem(use_llm, models_loaded))
    /\ UNCHANGED <<engine_vars, jobs_table, resumes_table, evaluations_table,
                   last_call, api_response>>

\* an evaluation on the k-th object: _soft_match_scoring encodes with the
\* embedding model of that object's engine
EncodeOn(k) ==
    /\ last_call' = [op |-> "calculate_relevance_score", on |-> k,
                     embedding_model |-> constructed[k].scoring_engine.embedding_model]
    /\ UNCHANGED <<engine_vars, models_loaded, constructed, jobs_table, resumes_table,
                   evaluations_table, api_response>>

ProcessNext ==
    \/ ConstructScoringEngine
    \/ \E use_llm \in BOOLEAN : ConstructSystem(use_llm)
    \/ \E k \in 1..Len(constructed) : EncodeOn(k)

SpecProcess == Init /\ [][ProcessNext]_vars

\* C11: however many systems and engines the process constructs, the
\* embedding model is loaded at most once and every engine holds, and so
\* every evaluation encodes with, that one instance.
C11_EmbeddingModelLoadedOnce ==
    /\ models_loaded <= 1
    /\ \A i, j \in 1..Len(constructed) :
          constructed[i].scoring_engine.embedding_model
             = constructed[j].scoring_engine.embedding_model
    /\ last_call # <<>> => last_call.embedding_model = 1

(***************************************************************************)
(* The database (src/core/database.py).  A table is the set of its rows;   *)
(* INSERT OR REPLACE keeps its primary key unique.  List columns hold the  *)
(* text json.dumps makes of the list.  Scores are in hundredths of a point *)
(* and pass through a REAL column unchanged; created_at of a job is the    *)
(* reading of a clock, uploaded_at and evaluated_at are not modelled.      *)
(***************************************************************************)
RECURSIVE JsonEscape(_)
\* the characters of a string inside a JSON string literal
JsonEscape(s) ==
    IF s = <<>> THEN <<>>
    ELSE IF Len(s) = 1
    THEN IF s[1] = "\"" \/ s[1] = "\\" THEN <<"\\", s[1]>> ELSE s
    ELSE JsonEscape(SubSeq(s, 1, Len(s) \div 2))
         \o JsonEscape(SubSeq(s, Len(s) \div 2 + 1, Len(s)))

JsonString(s) == <<"\"">> \o JsonEscape(s) \o <<"\"">>

RECURSIVE JsonItems(_)
JsonItems(list) ==
    IF list = <<>> THEN <<>>
    ELSE IF Len(list) = 1 THEN JsonString(list[1])
    ELSE JsonString(list[1]) \o <<",", " ">> \o JsonItems(Tail(list))

\* json.dumps of a list of strings
JsonDumps(list) == <<"[">> \o JsonItems(list) \o <<"]">>

RECURSIVE BackslashRun(_, _, _)
\* how many backslashes stand in a row before position j, from position
\* first on
BackslashRun(text, first, j) ==
    IF j - 1 < first \/ text[j - 1] # "\\" THEN 0
    ELSE 1 + BackslashRun(text, first, j - 1)

\* whether the character at position j of a string literal that starts at
\* position first is escaped: an odd number of backslashes stands before it
JsonEscaped(text, first, j) == BackslashRun(text, first, j) % 2 = 1

RECURSIVE JsonUnescape(_, _, _, _)
\* the characters of the string literal between lo and hi: a backslash that
\* is not escaped itself stands for the character after it
JsonUnescape(text, first, lo, hi) ==
    IF lo > hi THEN <<>>
    ELSE IF lo = hi
    THEN IF text[lo] = "\\" /\ ~JsonEscaped(text, first, lo) THEN <<>> ELSE <<text[lo]>>
    ELSE JsonUnescape(text, first, lo, (lo + hi) \div 2)
         \o JsonUnescape(text, first, (lo + hi) \div 2 + 1, hi)

\* the quotes of the text that are not escaped: they open and close its
\* string literals
JsonQuotes(text) ==
    {j \in 1..Len(text) : text[j] = "\"" /\ ~JsonEscaped(text, 1, j)}

\* the first of the positions
JsonFirst(positions) == CHOOSE j \in positions : \A m \in positions : j <= m

RECURSIVE JsonScan(_, _, _)
\* the string literal between the quotes at open and close, and then the
\* literals between the other quotes
JsonScanLiteral(text, quotes, items, open, close) ==
    JsonScan(text, quotes \ {open, close},
             Append(items, JsonUnescape(text, open + 1, open + 1, close - 1)))

\* the strings of the array between the quotes that are left, after the
\* items read so far
JsonScan(text, quotes, items) ==
    IF quotes = {} THEN items
    ELSE JsonScanLiteral(text, quotes, items, JsonFirst(quotes),
                         JsonFirst(quotes \ {JsonFirst(quotes)}))

\* json.loads of the text of a list of strings
JsonLoads(text) == JsonScan(text, JsonQuotes(text), <<>>)

\* Verdict.value
VerdictValue(verdict) ==
    CASE verdict = "High" -> "High Suitability"
      [] verdict = "Medium" -> "Medium Suitability"
      [] verdict = "Low" -> "Low Suitability"

\* the row save_job_description writes
JobRow(jd) ==
    [job_id |-> jd.job_id, company |-> jd.company, role_title |-> jd.role_title,
     required_skills |-> JsonDumps(jd.required_skills),
     preferred_skills |-> JsonDumps(jd.preferred_skills),
     experience_required |-> jd.experience_required,
     education |-> JsonDumps(jd.education),
     location |-> jd.location, description_text |-> jd.description_text,
     created_at |-> jd.created_at]

\* the row save_resume writes
ResumeRow(resume) ==
    [resume_id |-> resume.resume_id, candidate_name |-> resume.candidate_name,
     email |-> resume.email, phone |-> resume.phone,
     skills |-> JsonDumps(resume.skills), experience |-> resume.experience,
     education |-> JsonDumps(resume.education),
     projects |-> JsonDumps(resume.projects),
     certifications |-> JsonDumps(resume.certifications),
     resume_text |-> resume.resume_text, file_path |-> resume.file_path]

\* the row save_evaluation writes
EvaluationRow(result) ==
    [evaluation_id |-> result.evaluation_id, resume_id |-> result.resume_id,
     job_id |-> result.job_id, relevance_score |-> result.relevance_score,
     hard_match_score |-> result.hard_match_score,
     soft_match_score |-> result.soft_match_score,
     missing_skills |-> JsonDumps(result.missing_skills),
     matching_skills |-> JsonDumps(result.matching_skills),
     verdict |-> VerdictValue(result.verdict),
     suggestions |-> JsonDumps(result.suggestions)]

SaveJobDescriptionKeepingFirst(table, jd) ==
    IF \E row \in table : row.job_id = jd.job_id THEN table
    ELSE table \cup {JobRow(jd)}

\* DatabaseManager.save_job_description: INSERT OR REPLACE on job_id
SaveJobDescription(table, jd) ==
    {row \in table : row.job_id # jd.job_id} \cup {JobRow(jd)}

\* DatabaseManager.save_resume: INSERT OR REPLACE on resume_id
SaveResume(table, resume) ==
    {row \in table : row.resume_id # resume.resume_id} \cup {ResumeRow(resume)}

SaveEvaluationInsertOnly(table, result) == table \cup {EvaluationRow(result)}

\* DatabaseManager.save_evaluation: INSERT OR REPLACE on evaluation_id
SaveEvaluation(table, result) ==
    {row \in table : row.evaluation_id # result.evaluation_id} \cup {EvaluationRow(result)}

\* one row of the cursor as get_evaluations_by_job returns it: the columns
\* of e.* and r.candidate_name, r.email, r.phone, the lists decoded
ResultDict(e, r) ==
    [evaluation_id |-> e.evaluation_id, resume_id |-> e.resume_id, job_id |-> e.job_id,
     relevance_score |-> e.relevance_score, hard_match_score |-> e.hard_match_score,
     soft_match_score |-> e.soft_match_score,
     missing_skills |-> JsonLoads(e.missing_skills),
     matching_skills |-> JsonLoads(e.matching_skills),
     verdict |-> e.verdict,
     suggestions |-> JsonLoads(e.suggestions),
     candidate_name |-> r.candidate_name, email |-> r.email, phone |-> r.phone]

SelectedWithoutJoin(evaluations, resumes, job_id, min_score) ==
    {ResultDict(e, [candidate_name |-> <<>>, email |-> <<>>, phone |-> <<>>]) :
        e \in {row \in evaluations : row.job_id = job_id /\ row.relevance_score >= min_score}}

\* FROM evaluations e JOIN resumes r ON e.resume_id = r.resume_id
\* WHERE e.job_id = ? AND e.relevance_score >= ?
Selected(evaluations, resumes, job_id, min_score) ==
    {ResultDict(p[1], p[2]) :
        p \in {q \in evaluations \X resumes :
                  /\ q[1].resume_id = q[2].resume_id
                  /\ q[1].job_id = job_id
                  /\ q[1].relevance_score >= min_score}}

RECURSIVE OrderedDescending(_)
\* ORDER BY e.relevance_score DESC: the orders the cursor may list the rows
\* in; SQL leaves the order of rows with equal scores open
OrderedDescending(rows) ==
    IF rows = {} THEN {<<>>}
    ELSE UNION {{<<first>> \o rest : rest \in OrderedDescending(rows \ {first})} :
                first \in {top \in rows :
                             \A other \in rows :
                                 top.relevance_score >= other.relevance_score}}

\* DatabaseManager.get_evaluations_by_job: the lists it may return
GetEvaluationsByJob(evaluations, resumes, job_id, min_score) ==
    OrderedDescending(Selected(evaluations, resumes, job_id, min_score))

\* evaluations[:top_n]
Prefix(list, top_n) ==
    IF top_n >= 0 THEN Slice(list, 0, top_n)
    ELSE Slice(list, 0, Max2(Len(list) + top_n, 0))

\* ResumeRelevanceSystem.get_shortlist, given what the query returned
GetShortlist(found, top_n) == Prefix(found, top_n)

(***************************************************************************)
(* The database called directly, with objects built by hand as             *)
(* tests/test_database.py builds them.                                     *)
(***************************************************************************)
HandJob(job_id) ==
    [job_id |-> job_id, company |-> <<"T","e","s","t","C","o">>, role_title |-> <<"E","n","g","i","n","e","e","r">>,
     required_skills |-> <<<<"P","y","t","h","o","n">>>>, preferred_skills |-> <<>>,
     experience_required |-> <<"2"," ","y","e","a","r","s">>, education |-> <<<<"B","a","c","h","e","l","o","r","s">>>>,
     location |-> <<"R","e","m","o","t","e">>, description_text |-> <<"J","o","b"," ","d","e","s","c","r","i","p","t","i","o","n"," ","t","e","x","t">>,
     created_at |-> 0]

HandJobs == {HandJob(<<"j","1">>), HandJob(<<"j","2">>)}

HandResume(resume_id, candidate_name) ==
    [resume_id |-> resume_id, candidate_name |-> candidate_name,
     email |-> <<"a","l","i","c","e","@","e","x","a","m","p","l","e",".","c","o","m">>, phone |-> <<"1","1","1","1","1","1","1","1","1","1">>,
     skills |-> <<<<"P","y","t","h","o","n">>>>, experience |-> <<"2"," ","y","e","a","r","s">>,
     education |-> <<<<"B","a","c","h","e","l","o","r","s">>>>, projects |-> <<>>, certifications |-> <<>>,
     resume_text |-> <<"P","y","t","h","o","n"," ","d","e","v","e","l","o","p","e","r">>, file_path |-> <<"r","e","s","u","m","e",".","p","d","f">>]

HandResumes == {HandResume(<<"r","1">>, <<"A","l","i","c","e">>), HandResume(<<"r","2">>, <<"B","o","b">>)}

HandEvaluation(evaluation_id, resume_id, job_id, relevance_score, matching_skills, suggestions) ==
    [evaluation_id |-> evaluation_id, resume_id |-> resume_id, job_id |-> job_id,
     relevance_score |-> relevance_score, hard_match_score |-> 4000,
     soft_match_score |-> 4000, missing_skills |-> <<>>,
     matching_skills |-> matching_skills,
     verdict |-> DetermineVerdict(Hundredths(relevance_score)),
     suggestions |-> suggestions]

\* evaluations of one resume for one job under two identifiers, of a
\* second resume with the same score, of a resume that is never saved, and
\* for a second job; strings with quotes, commas and backslashes among them
HandEvaluations ==
    {HandEvaluation(<<"e","1">>, <<"r","1">>, <<"j","1">>, 8000, <<<<"P","y","t","h","o","n">>>>, <<<<"L","o","o","k","s"," ","g","o","o","d">>>>),
     HandEvaluation(<<"e","1">>, <<"r","1">>, <<"j","1">>, 6000, <<<<"P","y","t","h","o","n">>>>, <<>>),
     HandEvaluation(<<"e","2">>, <<"r","1">>, <<"j","1">>, 4000,
                    <<<<"C",","," ","C","+","+">>, <<"a","\\","b">>>>, <<<<"R","e","a","d"," ","\"","S","I","C","P","\"",","," ","t","h","e","n"," ","[","m","o","r","e","]">>>>),
     HandEvaluation(<<"e","3">>, <<"r","2">>, <<"j","1">>, 8000, <<>>, <<<<"L","o","o","k","s"," ","g","o","o","d">>, <<>>>>),
     HandEvaluation(<<"e","4">>, <<"r","3">>, <<"j","1">>, 9000, <<<<"P","y","t","h","o","n">>>>, <<<<"L","o","o","k","s"," ","g","o","o","d">>>>),
     HandEvaluation(<<"e","5">>, <<"r","2">>, <<"j","2">>, 4000, <<<<"P","y","t","h","o","n">>>>, <<<<"L","o","o","k","s"," ","g","o","o","d">>>>)}

JobIds == {<<"j","1">>, <<"j","2">>}

\* min_score, in hundredths: the default of get_evaluations_by_job, the
\* default of get_shortlist, and a score between the saved ones
MinScores == {0, 5000, 8000}

TopNs == {-1, 0, 1, 2, 10}

\* db.save_job_description(jd)
DbSaveJobDescription(jd) ==
    /\ jobs_table' = SaveJobDescription(jobs_table, jd)
    /\ last_call' = [op |-> "save_job_description"]
    /\ UNCHANGED <<engine_vars, models_loaded, constructed, resumes_table,
                   evaluations_table, api_response>>

\* db.save_resume(resume)
DbSaveResume(resume) ==
    /\ resumes_table' = SaveResume(resumes_table, resume)
    /\ last_call' = [op |-> "save_resume"]
    /\ UNCHANGED <<engine_vars, models_loaded, constructed, jobs_table,
                   evaluations_table, api_response>>

\* db.save_evaluation(result)
DbSaveEvaluation(result) ==
    /\ evaluations_table' = SaveEvaluation(evaluations_table, result)
    /\ last_call' = [op |-> "save_evaluation"]
    /\ UNCHANGED <<engine_vars, models_loaded, constructed, jobs_table,
                   resumes_table, api_response>>

\* db.get_evaluations_by_job(job_id, min_score)
DbGetEvaluationsByJob(job_id, min_score) ==
    /\ \E found \in GetEvaluationsByJob(evaluations_table, resumes_table,
                                        job_id, min_score) :
          last_call' = [op |-> "get_evaluations_by_job", job_id |-> job_id,
                        min_score |-> min_score, returned |-> found]
    /\ UNCHANGED <<engine_vars, models_loaded, constructed, jobs_table,
                   resumes_table, evaluations_table, api_response>>

\* system.get_shortlist(job_id, top_n, min_score)
DbGetShortlist(job_id, top_n, min_score) ==
    /\ \E found \in GetEvaluationsByJob(evaluations_table, resumes_table,
                                        job_id, min_score) :
          last_call' = [op |-> "get_shortlist", job_id |-> job_id,
                        min_score |-> min_score, top_n |-> top_n,
                        returned |-> GetShortlist(found, top_n)]
    /\ UNCHANGED <<engine_vars, models_loaded, constructed, jobs_table,
                   resumes_table, evaluations_table, api_response>>

DbNext ==
    \/ \E jd \in HandJobs : DbSaveJobDescription(jd)
    \/ \E resume \in HandResumes : DbSaveResume(resume)
    \/ \E result \in HandEvaluations : DbSaveEvaluation(result)
    \/ \E job_id \in JobIds, min_score \in MinScores :
          DbGetEvaluationsByJob(job_id, min_score)
    \/ \E job_id \in JobIds, top_n \in TopNs, min_score \in MinScores :
          DbGetShortlist(job_id, top_n, min_score)

SpecDb == Init /\ [][DbNext]_vars

\* the dict the query owes for a saved evaluation and the saved resume it
\* belongs to, built from the objects as they were passed to the database
SavedAs(result, resume) ==
    [evaluation_id |-> result.evaluation_id, resume_id |-> result.resume_id,
     job_id |-> result.job_id, relevance_score |-> result.relevance_score,
     hard_match_score |-> result.hard_match_score,
     soft_match_score |-> result.soft_match_score,
     missing_skills |-> result.missing_skills,
     matching_skills |-> result.matching_skills,
     verdict |-> VerdictValue(result.verdict),
     suggestions |-> result.suggestions,
     candidate_name |-> resume.candidate_name, email |-> resume.email,
     phone |-> resume.phone]

\* the stored evaluations of the job with at least the score and a resume
\* row, as they were saved
StoredFor(job_id, min_score) ==
    {SavedAs(p[1], p[2]) :
        p \in {q \in HandEvaluations \X HandResumes :
                  /\ EvaluationRow(q[1]) \in evaluations_table
                  /\ ResumeRow(q[2]) \in resumes_table
                  /\ q[1].resume_id = q[2].resume_id
                  /\ q[1].job_id = job_id
                  /\ q[1].relevance_score >= min_score}}

\* no entry twice, and descending relevance_score
DescendingOnce(list) ==
    \A i, j \in 1..Len(list) :
        i < j => /\ list[i] # list[j]
                 /\ list[i].relevance_score >= list[j].relevance_score

\* whether the list is the first n entries of a listing of the set in
\* descending relevance_score
FirstOf(list, n, stored) ==
    /\ Len(list) = n
    /\ DescendingOnce(list)
    /\ Range(list) \subseteq stored
    /\ \A left \in stored \ Range(list) : \A i \in 1..Len(list) :
          list[i].relevance_score >= left.relevance_score

\* C18: get_evaluations_by_job returns exactly the stored evaluations of
\* the job with relevance_score >= min_score and a resume row, once each,
\* in descending relevance_score, with the scores and lists that were
\* saved; get_shortlist returns the first top_n of such a list, so at most
\* top_n entries for top_n >= 0.
C18_QueryReturnsStoredEvaluations ==
    /\ (last_call # <<>> /\ last_call.op = "get_evaluations_by_job") =>
          /\ Range(last_call.returned) = StoredFor(last_call.job_id, last_call.min_score)
          /\ DescendingOnce(last_call.returned)
    /\ (last_call # <<>> /\ last_call.op = "get_shortlist" /\ last_call.top_n >= 0) =>
          FirstOf(last_call.returned,
                  Min2(last_call.top_n,
                       Cardinality(StoredFor(last_call.job_id, last_call.min_score))),
                  StoredFor(last_call.job_id, last_call.min_score))

\* a query for job j1 has returned two evaluations of different scores,
\* one of them with quotes, commas and backslashes in its lists, while the
\* table holds an evaluation of the job whose resume was never saved
C18_Witness ==
    /\ last_call # <<>>
    /\ last_call.op = "get_evaluations_by_job"
    /\ Len(last_call.returned) = 2
    /\ last_call.returned[1].relevance_score > last_call.returned[2].relevance_score
    /\ last_call.returned[2].matching_skills = <<<<"C",","," ","C","+","+">>, <<"a","\\","b">>>>
    /\ \E row \in evaluations_table : row.resume_id = <<"r","3">> /\ row.job_id = <<"j","1">>

(***************************************************************************)
(* ResumeRelevanceSystem (src/core/system.py) with the LLMAnalyzer         *)
(* (src/core/llm_integration.py)                                           *)
(***************************************************************************)
RECURSIVE Decimal(_)
\* str(n) of a natural number
Decimal(n) ==
    IF n < 10 THEN <<DigitChars[n + 1]>>
    ELSE Decimal(n \div 10) \o <<DigitChars[(n % 10) + 1]>>

\* f"{years}" of what _parse_experience_years returned: a float when the
\* string holds digits, the int 0 otherwise
YearsText(exp_string) ==
    IF \E i \in 1..Len(exp_string) : IsDigit(exp_string[i])
    THEN Decimal(ExperienceYears[exp_string]) \o <<".","0">>
    ELSE <<"0">>

RECURSIVE JoinComma(_)
\* ', '.join(list)
JoinComma(list) ==
    IF Len(list) = 0 THEN <<>>
    ELSE IF Len(list) = 1 THEN list[1]
    ELSE list[1] \o <<",", " ">> \o JoinComma(Tail(list))

\* the string _generate_suggestions appends for a suggestion of the model
SuggestionText(suggestion, resume, jd) ==
    CASE suggestion.kind = "missing_skills" ->
            <<"C","o","n","s","i","d","e","r"," ","a","c","q","u","i","r","i","n","g"," ","t","h","e","s","e"," ","m","i","s","s","i","n","g"," ","s","k","i","l","l","s",":"," ">> \o JoinComma(suggestion.detail)
      [] suggestion.kind = "experience" ->
            <<"G","a","i","n"," ","m","o","r","e"," ","e","x","p","e","r","i","e","n","c","e","."," ","R","e","q","u","i","r","e","d",":"," ">> \o YearsText(jd.experience_required)
            \o <<" ","y","e","a","r","s",","," ","Y","o","u"," ","h","a","v","e",":"," ">> \o YearsText(resume.experience) \o <<" ","y","e","a","r","s">>
      [] suggestion.kind = "projects" ->
            <<"A","d","d"," ","m","o","r","e"," ","r","e","l","e","v","a","n","t"," ","p","r","o","j","e","c","t","s"," ","t","o"," ","d","e","m","o","n","s","t","r","a","t","e"," ","p","r","a","c","t","i","c","a","l"," ","s","k","i","l","l","s">>
      [] suggestion.kind = "certifications" ->
            <<"C","o","n","s","i","d","e","r"," ","o","b","t","a","i","n","i","n","g"," ","r","e","l","e","v","a","n","t"," ","c","e","r","t","i","f","i","c","a","t","i","o","n","s"," ","i","n"," ","y","o","u","r"," ","d","o","m","a","i","n">>
      [] suggestion.kind = "needs_improvement" ->
            <<"Y","o","u","r"," ","p","r","o","f","i","l","e"," ","n","e","e","d","s"," ","s","i","g","n","i","f","i","c","a","n","t"," ","i","m","p","r","o","v","e","m","e","n","t"," ","t","o"," ","m","a","t","c","h"," ","t","h","i","s"," ","r","o","l","e">>
      [] suggestion.kind = "core_skills" ->
            <<"F","o","c","u","s"," ","o","n"," ","b","u","i","l","d","i","n","g"," ","c","o","r","e"," ","s","k","i","l","l","s"," ","m","e","n","t","i","o","n","e","d"," ","i","n"," ","t","h","e"," ","j","o","b"," ","d","e","s","c","r","i","p","t","i","o","n">>
      [] suggestion.kind = "moderately_suitable" ->
            <<"Y","o","u","r"," ","p","r","o","f","i","l","e"," ","i","s"," ","m","o","d","e","r","a","t","e","l","y"," ","s","u","i","t","a","b","l","e","."," ","F","o","c","u","s"," ","o","n"," ","f","i","l","l","i","n","g"," ","s","k","i","l","l"," ","g","a","p","s">>
      [] suggestion.kind = "highly_suitable" ->
            <<"Y","o","u","r"," ","p","r","o","f","i","l","e"," ","i","s"," ","h","i","g","h","l","y"," ","s","u","i","t","a","b","l","e","."," ","M","i","n","o","r"," ","i","m","p","r","o","v","e","m","e","n","t","s"," ","c","a","n"," ","m","a","k","e"," ","i","t"," ","p","e","r","f","e","c","t">>

\* the EvaluationResult calculate_relevance_score builds for a resume and
\* a job that carry identifiers, its suggestions as strings
EvaluationResult(result, resume, jd) ==
    [evaluation_id |-> resume.resume_id \o <<"_">> \o jd.job_id,
     resume_id |-> resume.resume_id,
     job_id |-> jd.job_id,
     relevance_score |-> result.relevance_score,
     hard_match_score |-> result.hard_match_score,
     soft_match_score |-> result.soft_match_score,
     missing_skills |-> result.missing_skills,
     matching_skills |-> result.matching_skills,
     verdict |-> result.verdict,
     suggestions |-> [i \in 1..Len(result.suggestions) |->
                         SuggestionText(result.suggestions[i], resume, jd)]]

\* LLMAnalyzer._fallback_analysis, as far as evaluate_resume reads it
FallbackAnalysis ==
    [recommendations |->
        << <<"F","o","c","u","s"," ","o","n"," ","a","c","q","u","i","r","i","n","g"," ","m","i","s","s","i","n","g"," ","t","e","c","h","n","i","c","a","l"," ","s","k","i","l","l","s">>,
           <<"A","d","d"," ","r","e","l","e","v","a","n","t"," ","p","r","o","j","e","c","t","s"," ","t","o"," ","d","e","m","o","n","s","t","r","a","t","e"," ","e","x","p","e","r","t","i","s","e">>,
           <<"C","o","n","s","i","d","e","r"," ","o","b","t","a","i","n","i","n","g"," ","i","n","d","u","s","t","r","y"," ","c","e","r","t","i","f","i","c","a","t","i","o","n","s">> >>,
     career_advice |->
        <<"C","o","n","t","i","n","u","e"," ","b","u","i","l","d","i","n","g"," ","t","e","c","h","n","i","c","a","l"," ","s","k","i","l","l","s"," ","a","n","d"," ","g","a","i","n","i","n","g"," ","r","e","l","e","v","a","n","t"," ","e","x","p","e","r","i","e","n","c","e">>]

\* what the chain of the LLMAnalyzer does in a call: it raises, it answers
\* with text that is not JSON, or it answers with a JSON object, with or
\* without recommendations
LlmResponses ==
    { [kind |-> "raises"],
      [kind |-> "not_json"],
      [kind |-> "json", parsed |-> [fit_assessment |-> <<"G","o","o","d"," ","f","i","t">>]],
      [kind |-> "json",
       parsed |-> [recommendations |->
                      << <<"L","e","a","r","n"," ","R","u","s","t">>, <<"P","u","b","l","i","s","h"," ","a"," ","p","r","o","j","e","c","t">>, <<"G","e","t"," ","c","e","r","t","i","f","i","e","d">>,
                         <<"W","r","i","t","e"," ","m","o","r","e">> >>]] }

\* LLMAnalyzer.analyze
LLMAnalyze(llm_response) ==
    IF llm_response.kind = "json" THEN llm_response.parsed ELSE FallbackAnalysis

\* evaluate_resume between the scoring and the save: with use_llm, the
\* first three recommendations of the analysis are appended
ExtendSuggestions(use_llm, result, llm_response) ==
    IF use_llm /\ "recommendations" \in DOMAIN LLMAnalyze(llm_response)
    THEN [result EXCEPT
             !.suggestions = @ \o Slice(LLMAnalyze(llm_response).recommendations, 0, 3)]
    ELSE result

\* the three tables, passed through the calls of a handler
Database == [jobs |-> jobs_table, resumes |-> resumes_table,
             evaluations |-> evaluations_table]

ProcessResumeUnsaved(db, file) ==
    IF ParsedFiles[file].outcome = "raised"
    THEN [outcome |-> "raised", resume |-> <<>>, db |-> db]
    ELSE [outcome |-> "returned", resume |-> ParsedFiles[file].resume, db |-> db]

\* ResumeRelevanceSystem.process_resume: a ValueError of the parser
\* propagates before anything is saved
ProcessResume(db, file) ==
    IF ParsedFiles[file].outcome = "raised"
    THEN [outcome |-> "raised", resume |-> <<>>, db |-> db]
    ELSE [outcome |-> "returned", resume |-> ParsedFiles[file].resume,
          db |-> [db EXCEPT !.resumes = SaveResume(@, ParsedFiles[file].resume)]]

\* JobDescription(**jd_data): created_at = datetime.now(), the reading of
\* the clock when the parser builds the object
CreatedAt(jd, now) == jd @@ [created_at |-> now]

\* ResumeRelevanceSystem.process_job_description when the clock reads now
ProcessJobDescriptionAt(db, jd_text, company, location, now) ==
    [jd |-> CreatedAt(ParsedJobs[jd_text, company, location], now),
     db |-> [db EXCEPT !.jobs =
                SaveJobDescription(@, CreatedAt(ParsedJobs[jd_text, company, location],
                                                now))]]

\* ResumeRelevanceSystem.process_job_description where time is not
\* followed: the clock stands at 0
ProcessJobDescription(db, jd_text, company, location) ==
    ProcessJobDescriptionAt(db, jd_text, company, location, 0)

\* what a call that raised leaves behind
CallRaised(db, vectorizer) ==
    [outcome |-> "raised", db |-> db, vectorizer |-> vectorizer, returned |-> <<>>]

\* evaluate_resume from save_evaluation on
SaveAndReturn(db, vectorizer, result) ==
    [outcome |-> "returned",
     db |-> [db EXCEPT !.evaluations = SaveEvaluation(@, result)],
     vectorizer |-> vectorizer, returned |-> result]

\* evaluate_resume once the engine has answered
AfterScoring(use_llm, resume, jd, db, scored, llm_response) ==
    IF scored.outcome = "raised" THEN CallRaised(db, scored.vectorizer)
    ELSE SaveAndReturn(db, scored.vectorizer,
                       ExtendSuggestions(use_llm,
                                         EvaluationResult(scored.result, resume, jd),
                                         llm_response))

\* evaluate_resume once the job description is processed
AfterJobDescription(use_llm, resume, processed, vectorizer, encode_raises, llm_response) ==
    AfterScoring(use_llm, resume, processed.jd, processed.db,
                 CalculateRelevanceScore(vectorizer, resume, processed.jd, encode_raises),
                 llm_response)

\* evaluate_resume once the resume is processed
AfterResume(use_llm, parsed, vectorizer, jd_text, encode_raises, llm_response) ==
    IF parsed.outcome = "raised" THEN CallRaised(parsed.db, vectorizer)
    ELSE AfterJobDescription(use_llm, parsed.resume,
                             ProcessJobDescription(parsed.db, jd_text, <<"U","n","k","n","o","w","n">>,
                                                   <<"U","n","k","n","o","w","n">>),
                             vectorizer, encode_raises, llm_response)

\* ResumeRelevanceSystem.evaluate_resume on the database and the engine's
\* vectorizer as given: how the call ends, what it returns, and the
\* database and the vectorizer as it leaves them
EvaluateResume(use_llm, db, vectorizer, file, jd_text, encode_raises, llm_response) ==
    AfterResume(use_llm, ProcessResume(db, file), vectorizer, jd_text, encode_raises,
                llm_response)

(***************************************************************************)
(* ResumeRelevanceSystem.batch_evaluate.  A result is kept with the        *)
(* position its path had in resume_paths.                                  *)
(***************************************************************************)
\* the body of the try once the engine has answered; the fault is what
\* fails while this path is processed: "encode" the embedding capability,
\* "save" the INSERT of save_evaluation, "none" nothing
BatchScored(acc, parsed, position, jd, fault, scored) ==
    IF scored.outcome = "raised" \/ fault = "save"
    THEN [acc EXCEPT !.db = parsed.db, !.vectorizer = scored.vectorizer]
    ELSE [db |-> [parsed.db EXCEPT
                     !.evaluations =
                         SaveEvaluation(@, EvaluationResult(scored.result,
                                                            parsed.resume, jd))],
          vectorizer |-> scored.vectorizer,
          results |-> Append(acc.results,
                             [position |-> position,
                              result |-> EvaluationResult(scored.result,
                                                          parsed.resume, jd)])]

BatchStepAborting(acc, parsed, position, jd, fault) ==
    IF parsed.outcome = "raised" THEN [acc EXCEPT !.results = <<>>]
    ELSE IF fault # "none" THEN [acc EXCEPT !.results = <<>>]
    ELSE BatchScored(acc, parsed, position, jd, fault,
                     CalculateRelevanceScore(acc.vectorizer, parsed.resume, jd,
                                             fault = "encode"))

\* one iteration of the loop over resume_paths: an exception is printed
\* and the loop continues
BatchStep(acc, parsed, position, jd, fault) ==
    IF parsed.outcome = "raised" THEN acc
    ELSE BatchScored(acc, parsed, position, jd, fault,
                     CalculateRelevanceScore(acc.vectorizer, parsed.resume, jd,
                                             fault = "encode"))

RECURSIVE BatchLoop(_, _, _, _, _)
BatchLoop(acc, files, position, jd, faults) ==
    IF position > Len(files) THEN acc
    ELSE BatchLoop(BatchStep(acc, ProcessResume(acc.db, files[position]), position, jd,
                             faults[position]),
                   files, position + 1, jd, faults)

RECURSIVE InsertDescendingBeforeEqual(_, _)
RECURSIVE InsertDescending(_, _)
InsertDescendingBeforeEqual(sorted, item) ==
    IF sorted = <<>> THEN <<item>>
    ELSE IF sorted[1].result.relevance_score > item.result.relevance_score
    THEN <<sorted[1]>> \o InsertDescendingBeforeEqual(Tail(sorted), item)
    ELSE <<item>> \o sorted

\* the place of an item among the items sorted before it: behind every
\* item of a greater or equal relevance_score (the sort is stable, also
\* with reverse=True)
InsertDescending(sorted, item) ==
    IF sorted = <<>> THEN <<item>>
    ELSE IF sorted[1].result.relevance_score >= item.result.relevance_score
    THEN <<sorted[1]>> \o InsertDescending(Tail(sorted), item)
    ELSE <<item>> \o sorted

RECURSIVE SortDescending(_, _)
\* results.sort(key=lambda x: x.relevance_score, reverse=True)
SortDescending(sorted, results) ==
    IF results = <<>> THEN sorted
    ELSE SortDescending(InsertDescending(sorted, Head(results)), Tail(results))

\* batch_evaluate from the sort on
SortAndReturn(acc) ==
    [outcome |-> "returned", db |-> acc.db, vectorizer |-> acc.vectorizer,
     returned |-> SortDescending(<<>>, acc.results)]

\* batch_evaluate once the job description is processed
BatchAfterJobDescription(processed, vectorizer, files, faults) ==
    SortAndReturn(BatchLoop([db |-> processed.db, vectorizer |-> vectorizer,
                             results |-> <<>>],
                            files, 1, processed.jd, faults))

\* ResumeRelevanceSystem.batch_evaluate
BatchEvaluate(db, vectorizer, files, jd_text, company, location, faults) ==
    BatchAfterJobDescription(ProcessJobDescription(db, jd_text, company, location),
                             vectorizer, files, faults)

(***************************************************************************)
(* One ResumeRelevanceSystem in use: evaluate_resume, batch_evaluate and   *)
(* save_evaluation calls on its database (src/core/system.py).             *)
(***************************************************************************)
MaxBatch == 2

\* the files of the calls on the system: a .pdf, a .docx and a .txt path
EvaluatedFiles == {file \in SystemFiles : file.text # EmptyText}

\* the resume_paths of a batch_evaluate call
BatchFiles == SeqsUpTo(EvaluatedFiles, MaxBatch) \ {<<>>}

\* the LLM is called only by a system constructed with use_llm
LlmCalls(use_llm) == IF use_llm THEN LlmResponses ELSE {[kind |-> "unused"]}

\* the hand-built evaluations of one resume for one job
PairEvaluations ==
    {result \in HandEvaluations : result.resume_id = <<"r","1">> /\ result.job_id = <<"j","1">>}

\* the system after ResumeRelevanceSystem(use_llm=...), nothing stored
SystemSpecInit ==
    /\ EngineInit
    /\ models_loaded = 1
    /\ constructed \in {<<NewSystem(use_llm, 0)>> : use_llm \in BOOLEAN}
    /\ jobs_table = {}
    /\ resumes_table = {}
    /\ evaluations_table = {}
    /\ last_call = <<>>
    /\ api_response = <<>>

\* the row of the evaluation's id that a save is about to replace by a
\* different one
Replaces(table, result) ==
    \E row \in table : /\ row.evaluation_id = result.evaluation_id
                       /\ row # EvaluationRow(result)

\* system.evaluate_resume(resume_path, jd_text)
SystemEvaluateResume(file, jd_text, encode_raises, llm_response) ==
    /\ \E r \in {EvaluateResume(constructed[1].use_llm, Database, tfidf_vectorizer,
                                file, jd_text, encode_raises, llm_response)} :
          /\ jobs_table' = r.db.jobs
          /\ resumes_table' = r.db.resumes
          /\ evaluations_table' = r.db.evaluations
          /\ tfidf_vectorizer' = r.vectorizer
          /\ last_call' = [op |-> "evaluate_resume", file_path |-> file.file_path,
                           encode_raises |-> encode_raises,
                           outcome |-> r.outcome, returned |-> r.returned,
                           replaced |-> /\ r.outcome = "returned"
                                        /\ Replaces(evaluations_table, r.returned)]
    /\ UNCHANGED <<evaluated, scores, status, evaluation, remembered, workers,
                   verdict_score, verdict_returned, models_loaded, constructed,
                   api_response>>

\* system.batch_evaluate(resume_paths, jd_text)
SystemBatchEvaluate(files, jd_text, faults) ==
    /\ \E r \in {BatchEvaluate(Database, tfidf_vectorizer, files, jd_text,
                               <<"U","n","k","n","o","w","n">>, <<"U","n","k","n","o","w","n">>, faults)} :
          /\ jobs_table' = r.db.jobs
          /\ resumes_table' = r.db.resumes
          /\ evaluations_table' = r.db.evaluations
          /\ tfidf_vectorizer' = r.vectorizer
          /\ last_call' = [op |-> "batch_evaluate", files |-> files,
                           jd_text |-> jd_text,
                           faults |-> faults, outcome |-> r.outcome,
                           returned |-> r.returned]
    /\ UNCHANGED <<evaluated, scores, status, evaluation, remembered, workers,
                   verdict_score, verdict_returned, models_loaded, constructed,
                   api_response>>

\* the calls on one system
SystemNext ==
    \/ \E file \in EvaluatedFiles, encode_raises \in BOOLEAN :
          \E llm_response \in LlmCalls(constructed[1].use_llm) :
             SystemEvaluateResume(file, JobTextA, encode_raises, llm_response)
    \/ \E files \in BatchFiles :
          SystemBatchEvaluate(files, JobTextA, [position \in 1..Len(files) |-> "none"])
    \/ \E result \in PairEvaluations : DbSaveEvaluation(result)

SpecSystem == SystemSpecInit /\ [][SystemNext]_vars

(***************************************************************************)
(* Claims about the calls on one system.                                   *)
(***************************************************************************)
\* the identifier the engine gives the evaluation of a resume for a job
PairId(row) == row.resume_id \o <<"_">> \o row.job_id

\* whether the n-th result of a batch is the last of its identifier
LastOfItsId(results, n) ==
    \A later \in 1..Len(results) :
        results[later].result.evaluation_id = results[n].result.evaluation_id
            => results[later].position <= results[n].position

\* C12 as stated: the evaluations table holds at most one row per
\* (resume_id, job_id) pair, whatever evaluate_resume, batch_evaluate and
\* save_evaluation calls were made.
C12_OneRowPerPair ==
    \A a, b \in evaluations_table :
        (a.resume_id = b.resume_id /\ a.job_id = b.job_id) => a = b

\* C12, amended: the evaluations table holds at most one row per
\* evaluation_id.  An evaluation made by evaluate_resume or batch_evaluate
\* has the evaluation_id resume_id + "_" + job_id, so a pair evaluated
\* again replaces its row and the row stored for the pair's identifier is
\* that of the most recent evaluation; a save_evaluation call with another
\* evaluation_id adds a row of its own for the pair.
C12_OneRowPerEvaluationId ==
    /\ \A a, b \in evaluations_table : a.evaluation_id = b.evaluation_id => a = b
    /\ \A a, b \in evaluations_table :
          (/\ a.evaluation_id = PairId(a)
           /\ b.evaluation_id = PairId(b)
           /\ a.resume_id = b.resume_id
           /\ a.job_id = b.job_id) => a = b
    /\ (/\ last_call # <<>>
        /\ last_call.op = "evaluate_resume"
        /\ last_call.outcome = "returned") =>
          /\ last_call.returned.evaluation_id = PairId(last_call.returned)
          /\ EvaluationRow(last_call.returned) \in evaluations_table
    /\ (last_call # <<>> /\ last_call.op = "batch_evaluate") =>
          \A n \in 1..Len(last_call.returned) :
             /\ last_call.returned[n].result.evaluation_id
                   = PairId(last_call.returned[n].result)
             /\ LastOfItsId(last_call.returned, n)
                   => EvaluationRow(last_call.returned[n].result) \in evaluations_table

\* an evaluate_resume call has replaced the row of an earlier evaluation
\* of the same resume and job by a different one, while the table holds
\* two hand-saved rows of another pair
C12_Witness ==
    /\ last_call # <<>>
    /\ last_call.op = "evaluate_resume"
    /\ last_call.outcome = "returned"
    /\ last_call.replaced
    /\ \E a, b \in evaluations_table :
          a # b /\ a.resume_id = b.resume_id /\ a.job_id = b.job_id

\* C15: the EvaluationResult that evaluate_resume returns and persists has
\* at most 5 suggestions, with use_llm False or True, the LLM call
\* succeeding or falling back.
C15_AtMostFiveSuggestions ==
    (/\ last_call # <<>>
     /\ last_call.op = "evaluate_resume"
     /\ last_call.outcome = "returned") =>
        /\ Len(last_call.returned.suggestions) <= 5
        /\ \A row \in evaluations_table :
              row.evaluation_id = last_call.returned.evaluation_id
                 => Len(JsonLoads(row.suggestions)) <= 5

\* C17: evaluate_resume on a file whose text mentions what the job text
\* asks for returns, with the embedding model working, an EvaluationResult
\* of relevance_score > 0, for a .txt path as for .pdf and .docx paths.
C17_TextFileEvaluated ==
    (/\ last_call # <<>>
     /\ last_call.op = "evaluate_resume"
     /\ ~last_call.encode_raises
     /\ last_call.file_path \in {<<"a",".","p","d","f">>, <<"c",".","t","x","t">>}) =>
        /\ last_call.outcome = "returned"
        /\ last_call.returned.relevance_score > 0

(***************************************************************************)
(* One batch_evaluate call on a system that has stored nothing, with the   *)
(* failures that can happen while a path is processed.                     *)
(***************************************************************************)
MaxPaths == 3

\* the resume_paths of the call
PathLists == SeqsUpTo(SystemFiles, MaxPaths)

\* what can fail while one path of a batch is processed
Faults == {"none", "encode", "save"}

\* the first call on the system
BatchNext ==
    /\ last_call = <<>>
    /\ \E files \in PathLists :
          \E jd_text \in JobTexts, faults \in [1..Len(files) -> Faults] :
             SystemBatchEvaluate(files, jd_text, faults)

SpecBatch == SystemSpecInit /\ [][BatchNext]_vars

\* whether the n-th path of the call is processed without an exception: the
\* path is parsed, the engine scores the resume and nothing fails
Processed(call, n) ==
    /\ ParsedFiles[call.files[n]].outcome = "returned"
    /\ call.faults[n] = "none"
    /\ CalculateRelevanceScore(Unfitted, ParsedFiles[call.files[n]].resume,
                               ParsedJobs[call.jd_text, <<"U","n","k","n","o","w","n">>, <<"U","n","k","n","o","w","n">>],
                               FALSE).outcome = "returned"

\* C13: an exception raised while one resume of a batch is parsed, scored
\* (an embedding failure included) or saved does not abort the batch: every
\* other path is still processed, and the returned list holds exactly one
\* result for each path that was processed without an exception.
C13_BatchSurvivesFailures ==
    (last_call # <<>> /\ last_call.op = "batch_evaluate") =>
        /\ last_call.outcome = "returned"
        /\ {last_call.returned[k].position : k \in 1..Len(last_call.returned)}
              = {n \in 1..Len(last_call.files) : Processed(last_call, n)}
        /\ \A j, k \in 1..Len(last_call.returned) :
              last_call.returned[j].position = last_call.returned[k].position => j = k
        /\ \A k \in 1..Len(last_call.returned) :
              /\ last_call.returned[k].result.resume_id
                    = ParsedFiles[last_call.files[last_call.returned[k].position]]
                         .resume.resume_id
              /\ \E row \in evaluations_table :
                    row.evaluation_id = last_call.returned[k].result.evaluation_id
        /\ \A n \in 1..Len(last_call.files) :
              ParsedFiles[last_call.files[n]].outcome = "returned" =>
                 \E row \in resumes_table :
                    row.resume_id = ParsedFiles[last_call.files[n]].resume.resume_id

\* a batch of three paths: the first is not parsed, the embedding fails on
\* the second, and the third is evaluated and returned
C13_Witness ==
    /\ last_call # <<>>
    /\ last_call.op = "batch_evaluate"
    /\ Len(last_call.files) = 3
    /\ ParsedFiles[last_call.files[1]].outcome = "raised"
    /\ last_call.faults = <<"none", "encode", "none">>
    /\ Len(last_call.returned) = 1
    /\ last_call.returned[1].position = 3

\* C14: batch_evaluate returns its results in descending relevance_score,
\* and results of equal relevance_score keep the relative order their
\* paths had in resume_paths.
C14_DescendingStable ==
    (last_call # <<>> /\ last_call.op = "batch_evaluate") =>
        \A j, k \in 1..Len(last_call.returned) :
            j < k =>
               /\ last_call.returned[j].result.relevance_score
                     >= last_call.returned[k].result.relevance_score
               /\ last_call.returned[j].result.relevance_score
                     = last_call.returned[k].result.relevance_score
                     => last_call.returned[j].position < last_call.returned[k].position

\* three results: the second and the third path tie and come first, in the
\* order of their paths, ahead of the first path's lower score
C14_Witness ==
    /\ last_call # <<>>
    /\ last_call.op = "batch_evaluate"
    /\ Len(last_call.returned) = 3
    /\ last_call.returned[1].position = 2
    /\ last_call.returned[2].position = 3
    /\ last_call.returned[3].position = 1
    /\ last_call.returned[1].result.relevance_score
          = last_call.returned[2].result.relevance_score
    /\ last_call.returned[2].result.relevance_score
          > last_call.returned[3].result.relevance_score

(***************************************************************************)
(* The API (src/api/routes.py): five handlers on one system constructed    *)
(* with use_llm=False.  A request is the function from the names of the    *)
(* fields it carries to their values; a response is the status and the     *)
(* JSON object of the body.                                                *)
(***************************************************************************)
\* data.get(key, default), request.form.get(key, default)
FormGet(request, key, default) ==
    IF key \in DOMAIN request THEN request[key] ELSE default

\* jsonify({'success': False, 'error': message}), status
ErrorResponse(status_code, message) ==
    [status |-> status_code, body |-> [success |-> FALSE, error |-> message]]

Uncaught(message) == [status |-> 500, body |-> [propagated |-> message]]

\* except Exception as e: return jsonify({'success': False, 'error': str(e)}), 400
Caught(message) == ErrorResponse(400, message)

\* what a handler leaves behind: the database, the vectorizer of the
\* engine and the response
Handled(db, vectorizer, response) ==
    [db |-> db, vectorizer |-> vectorizer, response |-> response]

\* upload_jd once the job description is processed
UploadJdProcessed(processed, vectorizer) ==
    Handled(processed.db, vectorizer,
            [status |-> 200,
             body |-> [success |-> TRUE, job_id |-> processed.jd.job_id,
                       role_title |-> processed.jd.role_title,
                       required_skills |-> processed.jd.required_skills,
                       preferred_skills |-> processed.jd.preferred_skills]])

\* upload_jd: jd_text None makes the parser raise AttributeError
UploadJd(db, vectorizer, request) ==
    IF "jd_text" \notin DOMAIN request
    THEN Handled(db, vectorizer,
                 Caught(<<"'","N","o","n","e","T","y","p","e","'"," ","o","b","j","e","c","t"," ","h","a","s"," ","n","o"," ","a","t","t","r","i","b","u","t","e"," ","'","e","n","c","o","d","e","'">>))
    ELSE UploadJdProcessed(ProcessJobDescription(db, request.jd_text,
                                                 FormGet(request, "company", <<"U","n","k","n","o","w","n">>),
                                                 FormGet(request, "location", <<"U","n","k","n","o","w","n">>)),
                           vectorizer)

\* JobDescription(job_id=jd_data['job_id'], ...) from a dict of get_all_jobs
JobFromRow(row) ==
    [job_id |-> row.job_id, company |-> row.company, role_title |-> row.role_title,
     required_skills |-> JsonLoads(row.required_skills),
     preferred_skills |-> JsonLoads(row.preferred_skills),
     experience_required |-> row.experience_required,
     education |-> JsonLoads(row.education),
     location |-> row.location, description_text |-> row.description_text]

\* the text of what calculate_relevance_score raises
ScoringErrorText(encode_raises) ==
    IF encode_raises THEN <<"e","m","b","e","d","d","i","n","g"," ","f","a","i","l","e","d">> ELSE <<"d","i","v","i","s","i","o","n"," ","b","y"," ","z","e","r","o">>

\* the response of upload_resume for the evaluation it saved
EvaluationResponse(result) ==
    [status |-> 200,
     body |-> [success |-> TRUE, evaluation_id |-> result.evaluation_id,
               relevance_score |-> result.relevance_score,
               verdict |-> VerdictValue(result.verdict),
               missing_skills |-> result.missing_skills,
               matching_skills |-> result.matching_skills,
               suggestions |-> result.suggestions]]

\* upload_resume from save_evaluation on
UploadResumeSaved(db, vectorizer, result) ==
    Handled([db EXCEPT !.evaluations = SaveEvaluation(@, result)], vectorizer,
            EvaluationResponse(result))

\* upload_resume once the engine has answered
UploadResumeScored(db, resume, jd, scored, encode_raises) ==
    IF scored.outcome = "raised"
    THEN Handled(db, scored.vectorizer, Caught(ScoringErrorText(encode_raises)))
    ELSE UploadResumeSaved(db, scored.vectorizer,
                           EvaluationResult(scored.result, resume, jd))

\* upload_resume once the job is found
UploadResumeFor(db, vectorizer, resume, jd, encode_raises) ==
    UploadResumeScored(db, resume, jd,
                       CalculateRelevanceScore(vectorizer, resume, jd, encode_raises),
                       encode_raises)

\* upload_resume once the resume is processed: the job is looked up after
\* the resume is saved
UploadResumeProcessed(parsed, vectorizer, job_id, encode_raises) ==
    IF parsed.outcome = "raised"
    THEN Handled(parsed.db, vectorizer, Caught(<<"U","n","s","u","p","p","o","r","t","e","d"," ","f","i","l","e"," ","f","o","r","m","a","t">>))
    ELSE IF \A row \in parsed.db.jobs : row.job_id # job_id
    THEN Handled(parsed.db, vectorizer, ErrorResponse(404, <<"J","o","b"," ","n","o","t"," ","f","o","u","n","d">>))
    ELSE UploadResumeFor(parsed.db, vectorizer, parsed.resume,
                         JobFromRow(CHOOSE row \in parsed.db.jobs : row.job_id = job_id),
                         encode_raises)

\* upload_resume
UploadResume(db, vectorizer, request, encode_raises) ==
    IF "resume" \notin DOMAIN request
    THEN Handled(db, vectorizer, ErrorResponse(400, <<"N","o"," ","f","i","l","e"," ","p","r","o","v","i","d","e","d">>))
    ELSE IF FormGet(request, "job_id", <<>>) = <<>>
    THEN Handled(db, vectorizer, ErrorResponse(400, <<"J","o","b"," ","I","D"," ","r","e","q","u","i","r","e","d">>))
    ELSE UploadResumeProcessed(ProcessResume(db, TempFile(request.resume)), vectorizer,
                               request.job_id, encode_raises)

RECURSIVE WholeNumber(_)
\* int(text) of a text of digits
WholeNumber(text) ==
    IF text = <<>> THEN 0
    ELSE 10 * WholeNumber(SubSeq(text, 1, Len(text) - 1))
         + DigitValue(text[Len(text)])

\* whether int(text) converts the text: digits, after a minus sign or not
IsWholeNumber(text) ==
    /\ text # <<>>
    /\ \A i \in 1..Len(text) : IsDigit(text[i]) \/ (i = 1 /\ text[i] = "-" /\ Len(text) > 1)

\* request.args.get(key, default, type=int): the default when the argument
\* is missing or is not converted; the arguments of the model are whole
\* numbers or no numbers, which type=float converts alike
NumberArg(request, key, default) ==
    IF key \in DOMAIN request /\ IsWholeNumber(request[key])
    THEN IF Head(request[key]) = "-" THEN 0 - WholeNumber(Tail(request[key]))
         ELSE WholeNumber(request[key])
    ELSE default

\* get_shortlist, given what the query returned; min_score is in points,
\* the stored scores are in hundredths
ShortlistResponse(job_id, found, top_n) ==
    [status |-> 200,
     body |-> [success |-> TRUE, job_id |-> job_id,
               candidates |-> GetShortlist(found, top_n)]]

\* the entry of 'results' for one result of the batch
FormattedResult(r) ==
    [evaluation_id |-> r.evaluation_id, resume_id |-> r.resume_id,
     relevance_score |-> r.relevance_score, verdict |-> VerdictValue(r.verdict),
     missing_skills |-> r.missing_skills, suggestions |-> r.suggestions]

\* batch_evaluate once system.batch_evaluate has returned
BatchResponse(batch) ==
    Handled(batch.db, batch.vectorizer,
            [status |-> 200,
             body |-> [success |-> TRUE, total_evaluated |-> Len(batch.returned),
                       results |-> [n \in 1..Len(batch.returned) |->
                                       FormattedResult(batch.returned[n].result)]]])

\* batch_evaluate
BatchEvaluateHandler(db, vectorizer, request, faults) ==
    IF "resumes" \notin DOMAIN request
    THEN Handled(db, vectorizer, ErrorResponse(400, <<"N","o"," ","f","i","l","e","s"," ","p","r","o","v","i","d","e","d">>))
    ELSE IF FormGet(request, "jd_text", <<>>) = <<>>
    THEN Handled(db, vectorizer, ErrorResponse(400, <<"J","D"," ","t","e","x","t"," ","r","e","q","u","i","r","e","d">>))
    ELSE BatchResponse(BatchEvaluate(db, vectorizer,
                                     [n \in 1..Len(request.resumes) |->
                                         TempFile(request.resumes[n])],
                                     request.jd_text,
                                     FormGet(request, "company", <<"U","n","k","n","o","w","n">>),
                                     FormGet(request, "location", <<"U","n","k","n","o","w","n">>),
                                     faults))

\* get_jobs: the dicts of get_all_jobs; their order (created_at) is not
\* represented
GetJobs(db, db_raises) ==
    IF db_raises THEN Caught(<<"d","a","t","a","b","a","s","e"," ","i","s"," ","l","o","c","k","e","d">>)
    ELSE [status |-> 200,
          body |-> [success |-> TRUE, jobs |-> {JobFromRow(row) : row \in db.jobs}]]

\* the requests of the model
JobIdA == Md5Hex10(JobTextA)

ApiUploads == {upload \in Uploads : upload.filename # <<"b",".","d","o","c","x">>}

UploadJdRequests ==
    { <<>>,
      [company |-> <<"A","c","m","e">>],
      [jd_text |-> JobTextA],
      [jd_text |-> JobTextA, company |-> <<"A","c","m","e">>, location |-> <<"P","u","n","e">>] }

UploadResumeRequests ==
    {<<>>}
    \cup {[job_id |-> JobIdA]}
    \cup {[resume |-> upload] : upload \in ApiUploads}
    \cup {[resume |-> upload, job_id |-> job_id] :
             upload \in ApiUploads, job_id \in {<<>>, JobIdA, <<"j","1">>}}

ShortlistRequests ==
    { <<>>, [top_n |-> <<"1">>, min_score |-> <<"0">>], [top_n |-> <<"x">>],
      [top_n |-> <<"-","1">>, min_score |-> <<"8","0">>] }

BatchRequests ==
    { <<>>,
      [jd_text |-> JobTextA],
      [resumes |-> <<[filename |-> <<"a",".","p","d","f">>, text |-> ResumeTextA]>>],
      [resumes |-> <<[filename |-> <<"a",".","p","d","f">>, text |-> ResumeTextA]>>,
       jd_text |-> <<>>],
      [resumes |-> <<[filename |-> <<"c",".","t","x","t">>, text |-> ResumeTextA],
                     [filename |-> <<"a",".","p","d","f">>, text |-> ResumeTextA]>>,
       jd_text |-> JobTextA],
      [resumes |-> <<[filename |-> <<"d",".","p","d","f">>, text |-> EmptyText]>>,
       jd_text |-> JobTextA, company |-> <<"A","c","m","e">>, location |-> <<"P","u","n","e">>] }

\* api.routes at import: system = ResumeRelevanceSystem(use_llm=False)
ApiInit ==
    /\ EngineInit
    /\ models_loaded = 1
    /\ constructed = <<NewSystem(FALSE, 0)>>
    /\ jobs_table = {}
    /\ resumes_table = {}
    /\ evaluations_table = {}
    /\ last_call = <<>>
    /\ api_response = <<>>

\* what a handler that changes the system leaves in the variables
ApiHandled(handled) ==
    /\ jobs_table' = handled.db.jobs
    /\ resumes_table' = handled.db.resumes
    /\ evaluations_table' = handled.db.evaluations
    /\ tfidf_vectorizer' = handled.vectorizer
    /\ api_response' = handled.response
    /\ UNCHANGED <<evaluated, scores, status, evaluation, remembered, workers,
                   verdict_score, verdict_returned, models_loaded, constructed>>

\* POST /api/upload_jd
ApiUploadJd(request) ==
    /\ ApiHandled(UploadJd(Database, tfidf_vectorizer, request))
    /\ last_call' = [op |-> "upload_jd", request |-> request]

\* POST /api/upload_resume
ApiUploadResume(request, encode_raises) ==
    /\ ApiHandled(UploadResume(Database, tfidf_vectorizer, request, encode_raises))
    /\ last_call' = [op |-> "upload_resume", request |-> request,
                     encode_raises |-> encode_raises]

\* GET /api/get_shortlist/<job_id>
ApiGetShortlist(job_id, request, db_raises) ==
    /\ IF db_raises
       THEN api_response' = Caught(<<"d","a","t","a","b","a","s","e"," ","i","s"," ","l","o","c","k","e","d">>)
       ELSE \E found \in GetEvaluationsByJob(evaluations_table, resumes_table, job_id,
                                             100 * NumberArg(request, "min_score", 50)) :
               api_response' = ShortlistResponse(job_id, found,
                                                 NumberArg(request, "top_n", 10))
    /\ last_call' = [op |-> "get_shortlist", job_id |-> job_id, request |-> request,
                     db_raises |-> db_raises]
    /\ UNCHANGED <<engine_vars, models_loaded, constructed, jobs_table, resumes_table,
                   evaluations_table>>

\* POST /api/batch_evaluate
ApiBatchEvaluate(request) ==
    /\ ApiHandled(BatchEvaluateHandler(Database, tfidf_vectorizer, request,
                                       [n \in 1..MaxPaths |-> "none"]))
    /\ last_call' = [op |-> "batch_evaluate", request |-> request]

\* GET /api/jobs
ApiGetJobs(db_raises) ==
    /\ api_response' = GetJobs(Database, db_raises)
    /\ last_call' = [op |-> "jobs", db_raises |-> db_raises]
    /\ UNCHANGED <<engine_vars, models_loaded, constructed, jobs_table, resumes_table,
                   evaluations_table>>

ApiNext ==
    \/ \E request \in UploadJdRequests : ApiUploadJd(request)
    \/ \E request \in UploadResumeRequests, encode_raises \in BOOLEAN :
          ApiUploadResume(request, encode_raises)
    \/ \E job_id \in {JobIdA, <<"j","1">>}, request \in ShortlistRequests, db_raises \in BOOLEAN :
          ApiGetShortlist(job_id, request, db_raises)
    \/ \E request \in BatchRequests : ApiBatchEvaluate(request)
    \/ \E db_raises \in BOOLEAN : ApiGetJobs(db_raises)

SpecApi == ApiInit /\ [][ApiNext]_vars

(***************************************************************************)
(* Claims about the API.                                                   *)
(***************************************************************************)
\* the response is a JSON object with a boolean 'success', true with
\* status 200 and false with a 4xx status and an 'error'
WellFormed(response) ==
    /\ "success" \in DOMAIN response.body
    /\ response.body.success \in BOOLEAN
    /\ response.body.success => response.status = 200
    /\ ~response.body.success =>
          /\ response.status \in 400..499
          /\ "error" \in DOMAIN response.body

Succeeded(response) == WellFormed(response) /\ response.body.success

Failed(response, status_code) ==
    /\ WellFormed(response)
    /\ ~response.body.success
    /\ response.status = status_code

\* whether the request names a job that is not stored
JobUnknown(call) ==
    \/ /\ call.op = "get_shortlist"
       /\ \A row \in jobs_table : row.job_id # call.job_id
    \/ /\ call.op = "upload_resume"
       /\ FormGet(call.request, "job_id", <<>>) # <<>>
       /\ \A row \in jobs_table : row.job_id # call.request.job_id

\* the inputs a handler reads from the request
Inputs(op) ==
    CASE op = "upload_jd" -> {"jd_text", "company", "location"}
      [] op = "upload_resume" -> {"resume", "job_id"}
      [] op = "get_shortlist" -> {"top_n", "min_score"}
      [] op = "batch_evaluate" -> {"resumes", "jd_text", "company", "location"}
      [] op = "jobs" -> {}

\* the inputs without which a handler does not go on: the others have a
\* default
Required(op) == Inputs(op) \cap {"jd_text", "resume", "job_id", "resumes"}

\* whether an input of the set is missing from the request, or empty
Missing(call, inputs) ==
    /\ call.op # "jobs"
    /\ \E key \in inputs \cap Inputs(call.op) : FormGet(call.request, key, <<>>) = <<>>

\* whether the handler of upload_resume gets to an exception: the parser
\* has no extractor for the path, or the engine raises
UploadRaises(call) ==
    \/ ParsedFiles[TempFile(call.request.resume)].outcome = "raised"
    \/ /\ ~JobUnknown(call)
       /\ SoftMatchRaises(ParsedFiles[TempFile(call.request.resume)].resume,
                          JobFromRow(CHOOSE row \in jobs_table :
                                        row.job_id = call.request.job_id),
                          call.encode_raises)

\* C19 as stated: every endpoint answers every request with a JSON object
\* carrying a boolean 'success', true with status 200 on the normal path,
\* false with a 4xx status and an 'error' on any missing input, unknown job
\* or raised exception.  Here a missing input is one without a default.
C19_EveryFailureAnswered4xx ==
    last_call # <<>> /\ last_call.op \in {"upload_jd", "upload_resume", "get_shortlist",
                                          "batch_evaluate", "jobs"} =>
        /\ WellFormed(api_response)
        /\ (Missing(last_call, Required(last_call.op)) \/ JobUnknown(last_call))
              => ~api_response.body.success

\* C19, amended: every endpoint answers every request with a JSON object
\* carrying a boolean 'success', and no handler lets an exception
\* propagate.  The answer is success false with status 400 and an 'error'
\* when a required input (jd_text, the resume file, job_id, the resumes
\* files) is missing or an exception is raised in the handler, success
\* false with status 404 when upload_resume is given a job_id that is not
\* stored, and success true with status 200 otherwise: a missing company,
\* location, top_n or min_score takes its default, and get_shortlist for
\* a job that is not stored answers 200 with the candidates it finds.
C19_EveryRequestAnswered ==
    last_call # <<>> /\ last_call.op \in {"upload_jd", "upload_resume", "get_shortlist",
                                          "batch_evaluate", "jobs"} =>
        /\ WellFormed(api_response)
        /\ CASE Missing(last_call, Required(last_call.op)) -> Failed(api_response, 400)
             [] OTHER ->
                CASE last_call.op = "upload_resume" ->
                        IF ParsedFiles[TempFile(last_call.request.resume)].outcome
                              = "raised"
                        THEN Failed(api_response, 400)
                        ELSE IF JobUnknown(last_call) THEN Failed(api_response, 404)
                        ELSE IF UploadRaises(last_call) THEN Failed(api_response, 400)
                        ELSE Succeeded(api_response)
                  [] last_call.op \in {"get_shortlist", "jobs"} ->
                        IF last_call.db_raises THEN Failed(api_response, 400)
                        ELSE Succeeded(api_response)
                  [] OTHER -> Succeeded(api_response)

\* upload_resume for a stored job and a .pdf without text: the resume is
\* processed, the engine raises, and the handler answers 400
C19_Witness ==
    /\ last_call # <<>>
    /\ last_call.op = "upload_resume"
    /\ ~Missing(last_call, Required("upload_resume"))
    /\ ~JobUnknown(last_call)
    /\ ~last_call.encode_raises
    /\ UploadRaises(last_call)
    /\ Failed(api_response, 400)
    /\ \E row \in resumes_table : row.file_path = <<"/","t","m","p","/","d",".","p","d","f">>

(***************************************************************************)
(* _hard_match_scoring one part at a time: calls that vary the skill       *)
(* lists, the projects and the certifications, and calls that vary the     *)
(* experience and the education, on a fresh engine.                        *)
(***************************************************************************)
SkillCalls ==
    {<<resume, jd>> :
        resume \in [skills : HardResumeSkillLists, experience : {<<"9"," ","y","r","s">>},
                    education : {<<<<"B",".","T","e","c","h"," ","C","S">>>>}, projects : ProjectLists,
                    certifications : CertificationLists, resume_text : {ResumeTextA}],
        jd \in [required_skills : RequiredLists, preferred_skills : HardPreferredLists,
                experience_required : {<<"2"," ","y","e","a","r","s">>}, education : JobEducation,
                description_text : {JobTextA}]}

ComponentCalls ==
    {<<resume, jd>> :
        resume \in [skills : {<<<<"R","u","s","t">>, <<"P","y","t","h","o","n","3">>>>},
                    experience : HardResumeExperience, education : HardResumeEducation,
                    projects : {<<>>}, certifications : {<<>>},
                    resume_text : {ResumeTextA}],
        jd \in [required_skills : {<<<<"p","y","t","h","o","n">>>>}, preferred_skills : {<<>>},
                experience_required : HardJobExperience, education : HardJobEducation,
                description_text : {JobTextA}]}

HardCalls == SkillCalls \cup ComponentCalls

\* a fresh engine serves one call, the embedding model working
HardNext ==
    /\ status = "idle"
    /\ \E call \in HardCalls :
          Evaluate(call[1], call[2], FALSE) /\ UNCHANGED remembered

SpecHard == Init /\ [][HardNext]_vars

\* whether some skill of the resume fuzzy-matches the skill above 80
FuzzyMatched(skill, resume_skills) ==
    \E i \in 1..Len(resume_skills) : PartialRatios[<<skill, resume_skills[i]>>] > 80

\* the positions of the list whose skill is fuzzy-matched
MatchedPositions(list, resume_skills) ==
    {k \in 1..Len(list) : FuzzyMatched(list[k], resume_skills)}

RECURSIVE Kept(_, _, _)
\* the entries of the list at the given positions from k on, in list order
Kept(list, positions, k) ==
    IF k > Len(list) THEN <<>>
    ELSE (IF k \in positions THEN <<list[k]>> ELSE <<>>) \o Kept(list, positions, k + 1)

\* share * m / n in points, 0 for an empty list
ShareOf(share, list, resume_skills) ==
    IF list = <<>> THEN 0
    ELSE (Points(share) * Cardinality(MatchedPositions(list, resume_skills)))
            \div Len(list)

\* 5 points for every required or preferred skill that occurs in the
\* certification text, with no early stop
PlainCertificationPoints(resume, jd) ==
    IF resume.certifications = <<>> THEN 0
    ELSE Points(5)
         * Cardinality({k \in 1..Len(jd.required_skills \o jd.preferred_skills) :
                InCertifications[<<resume.certifications,
                                   (jd.required_skills \o jd.preferred_skills)[k]>>]})

\* the sum of the six components of the hard score, each on its own
PlainSum(resume, jd) ==
    SkillLoops(resume, jd).score
    + ExperiencePoints(resume, jd)
    + (IF EducationMatches[<<resume.education, jd.education>>] THEN Points(20) ELSE 0)
    + (IF ProjectSimilarity(Unfitted, resume, jd).above THEN Points(10) ELSE 0)
    + PlainCertificationPoints(resume, jd)

\* the orders of the list
Orders(list) == {[i \in 1..Len(list) |-> list[p[i]]] : p \in Permutations(1..Len(list))}

\* C21: the hard score of every call equals min(S, 100), S the plain sum
\* of the six components computed with no early stop, and it is the same
\* for every order of required_skills and every order of preferred_skills.
C21_HardScoreIsCappedPlainSum ==
    status # "idle" =>
        /\ scores.hard_score = Min2(PlainSum(evaluated.resume, evaluated.jd), Points(100))
        /\ \A required \in Orders(evaluated.jd.required_skills) :
           \A preferred \in Orders(evaluated.jd.preferred_skills) :
              HardMatchScoring(Unfitted, evaluated.resume,
                               [evaluated.jd EXCEPT !.required_skills = required,
                                                    !.preferred_skills = preferred]).score
                 = scores.hard_score

\* a call whose plain sum exceeds 100 (the certification loop was left
\* before its last skill) has returned 100, for a job with two different
\* required skills
C21_Witness ==
    /\ status = "returned"
    /\ PlainSum(evaluated.resume, evaluated.jd) > Points(100)
    /\ scores.hard_score = Points(100)
    /\ evaluated.jd.required_skills = <<<<"p","y","t","h","o","n">>, <<"r","u","s","t">>>>

\* C22: the required-skills component is 30 * m / n, n the number of
\* required skills and m the number of them fuzzy-matched above 80 by some
\* resume skill; it is at most 30 and is 0 when n = 0 or m = 0; and
\* missing_skills is the list of the unmatched required skills in job order
\* (required [rust] against resume [python] gives missing_skills = [rust]).
C22_RequiredComponent ==
    status = "returned" =>
        /\ \E m \in {Cardinality(MatchedPositions(evaluated.jd.required_skills,
                                                  evaluated.resume.skills))} :
           \E component \in {RequiredLoop([score |-> 0, matching |-> <<>>, missing |-> <<>>],
                                          evaluated.jd.required_skills,
                                          evaluated.resume.skills,
                                          Len(evaluated.jd.required_skills)).score} :
              /\ component * Len(evaluated.jd.required_skills) = Points(30) * m
              /\ component <= Points(30)
              /\ (Len(evaluated.jd.required_skills) = 0 \/ m = 0) => component = 0
        /\ evaluation.missing_skills
              = Kept(evaluated.jd.required_skills,
                     (1..Len(evaluated.jd.required_skills))
                        \ MatchedPositions(evaluated.jd.required_skills,
                                           evaluated.resume.skills),
                     1)
        /\ (evaluated.jd.required_skills = <<<<"r","u","s","t">>>>
              /\ evaluated.resume.skills = <<<<"p","y","t","h","o","n">>>>)
           => evaluation.missing_skills = <<<<"r","u","s","t">>>>

\* the call of the job that requires [rust] on the resume with the skills
\* [python] has returned missing_skills = [rust], and a hard score without
\* skill points: 20 for the experience and 20 for the education
C22_Witness ==
    /\ status = "returned"
    /\ evaluated.jd.required_skills = <<<<"r","u","s","t">>>>
    /\ evaluated.jd.preferred_skills = <<>>
    /\ evaluated.resume.skills = <<<<"p","y","t","h","o","n">>>>
    /\ evaluated.resume.projects = <<>>
    /\ evaluated.resume.certifications = <<>>
    /\ evaluation.missing_skills = <<<<"r","u","s","t">>>>
    /\ evaluation.hard_match_score = 4000

\* C23: a matched preferred skill is appended to matching_skills and adds
\* 10 / |preferred_skills| points, at most 10 in total; an unmatched
\* preferred skill is not added to missing_skills and changes nothing;
\* missing_skills holds only strings of job.required_skills.
C23_PreferredBonusOnly ==
    status = "returned" =>
        /\ evaluation.matching_skills
              = Kept(evaluated.jd.required_skills,
                     MatchedPositions(evaluated.jd.required_skills,
                                      evaluated.resume.skills), 1)
                \o Kept(evaluated.jd.preferred_skills,
                        MatchedPositions(evaluated.jd.preferred_skills,
                                         evaluated.resume.skills), 1)
        /\ SkillLoops(evaluated.resume, evaluated.jd).score
              = ShareOf(30, evaluated.jd.required_skills, evaluated.resume.skills)
                + ShareOf(10, evaluated.jd.preferred_skills, evaluated.resume.skills)
        /\ ShareOf(10, evaluated.jd.preferred_skills, evaluated.resume.skills) <= Points(10)
        /\ Range(evaluation.missing_skills) \subseteq Range(evaluated.jd.required_skills)
        /\ MatchedPositions(evaluated.jd.preferred_skills, evaluated.resume.skills) = {}
           => /\ evaluation.missing_skills
                    = HardMatchScoring(Unfitted, evaluated.resume,
                                       [evaluated.jd EXCEPT !.preferred_skills = <<>>]).missing
              /\ evaluation.matching_skills
                    = HardMatchScoring(Unfitted, evaluated.resume,
                                       [evaluated.jd EXCEPT !.preferred_skills = <<>>]).matching

\* a call has returned for a job whose two preferred skills are not
\* required, one matched and one not: the matched one is the last of
\* matching_skills, the other is nowhere
C23_Witness ==
    /\ status = "returned"
    /\ evaluated.jd.required_skills = <<<<"r","u","s","t">>>>
    /\ evaluated.jd.preferred_skills = <<<<"s","q","l">>, <<"p","y","t","h","o","n">>>>
    /\ evaluated.resume.skills = <<<<"R","u","s","t">>, <<"P","y","t","h","o","n","3">>>>
    /\ evaluation.matching_skills = <<<<"r","u","s","t">>, <<"p","y","t","h","o","n">>>>
    /\ evaluation.missing_skills = <<>>

\* the positions of the digits of the string
DigitPositions(exp_string) == {i \in 1..Len(exp_string) : IsDigit(exp_string[i])}

\* the first position of a set of positions
FirstPosition(positions) == CHOOSE i \in positions : \A j \in positions : i <= j

\* the end of the run of digits that starts at position first
RunEnd(exp_string, first) ==
    CHOOSE j \in first..Len(exp_string) :
        /\ \A k \in first..j : IsDigit(exp_string[k])
        /\ j = Len(exp_string) \/ ~IsDigit(exp_string[j + 1])

RECURSIVE Decimal10(_, _, _)
\* the number written by the digits at the positions first..last
Decimal10(exp_string, first, last) ==
    IF last < first THEN 0
    ELSE 10 * Decimal10(exp_string, first, last - 1) + DigitValue(exp_string[last])

\* the first integer found in the string, 0 for a string without digits
FirstInteger(exp_string) ==
    IF DigitPositions(exp_string) = {} THEN 0
    ELSE Decimal10(exp_string, FirstPosition(DigitPositions(exp_string)),
                   RunEnd(exp_string, FirstPosition(DigitPositions(exp_string))))

\* 20, 10 or 0 points by the years of the resume and of the job
ExpectedExperience(resume_years, job_years) ==
    IF resume_years >= job_years THEN Points(20)
    ELSE IF 10 * resume_years >= 7 * job_years THEN Points(10)
    ELSE 0

\* whether the call has neither preferred skills, projects nor
\* certifications: its hard score is the sum of the required-skills, the
\* experience and the education component
ThreeComponents(resume, jd) ==
    /\ jd.preferred_skills = <<>>
    /\ resume.projects = <<>>
    /\ resume.certifications = <<>>

\* C24: the experience component is 20 when resume_years >= job_years, 10
\* when 0.7 * job_years <= resume_years < job_years and 0 otherwise, the
\* years being the first integer of the experience string and 0 for a
\* string without digits; a job of 0 years gives every resume 20 points.
C24_ExperienceComponent ==
    status # "idle" =>
        \E resume_years \in {FirstInteger(evaluated.resume.experience)} :
        \E job_years \in {FirstInteger(evaluated.jd.experience_required)} :
            /\ ExperiencePoints(evaluated.resume, evaluated.jd)
                  = ExpectedExperience(resume_years, job_years)
            /\ job_years = 0 => ExperiencePoints(evaluated.resume, evaluated.jd) = Points(20)
            /\ ThreeComponents(evaluated.resume, evaluated.jd)
               => scores.hard_score
                     = ShareOf(30, evaluated.jd.required_skills, evaluated.resume.skills)
                       + ExpectedExperience(resume_years, job_years)
                       + (IF EducationMatches[<<evaluated.resume.education,
                                                evaluated.jd.education>>]
                          THEN Points(20) ELSE 0)

\* a call with 7 years against 10 has returned a hard score of 30 for the
\* skill, 10 for the experience and 20 for the education
C24_Witness ==
    /\ status = "returned"
    /\ evaluated.resume.experience = <<"7"," ","y","e","a","r","s">>
    /\ evaluated.jd.experience_required = <<"1","0"," ","y","e","a","r","s">>
    /\ evaluated.jd.education = <<>>
    /\ ThreeComponents(evaluated.resume, evaluated.jd)
    /\ scores.hard_score = Points(60)

\* the degree vocabulary of the education component
DegreeVocabulary ==
    { <<"b","a","c","h","e","l","o","r">>, <<"m","a","s","t","e","r">>, <<"p","h","d">>, <<"b",".","t","e","c","h">>, <<"m",".","t","e","c","h">>, <<"b",".","e",".">>, <<"m",".","e",".">> }

\* whether the education component is to be awarded
EducationAwarded(resume_edu, jd_edu) ==
    \/ jd_edu = <<>>
    \/ \E k \in DegreeVocabulary :
          /\ Contains(Lower(Join(resume_edu)), k)
          /\ Contains(Lower(Join(jd_edu)), k)

\* C25: the education component is 20 points when job.education is empty,
\* 20 points when some keyword of the degree vocabulary occurs, whatever
\* the case, in both the joined resume education and the joined job
\* education, and 0 otherwise, also for a job requirement that holds no
\* keyword of the vocabulary.
C25_EducationAllOrNothing ==
    status # "idle" =>
        /\ MatchEducation(evaluated.resume.education, evaluated.jd.education)
              = EducationAwarded(evaluated.resume.education, evaluated.jd.education)
        /\ evaluated.jd.education = <<<<"A","n","y"," ","d","e","g","r","e","e">>>>
           => ~MatchEducation(evaluated.resume.education, evaluated.jd.education)
        /\ ThreeComponents(evaluated.resume, evaluated.jd)
           => scores.hard_score
                 = ShareOf(30, evaluated.jd.required_skills, evaluated.resume.skills)
                   + ExperiencePoints(evaluated.resume, evaluated.jd)
                   + (IF EducationAwarded(evaluated.resume.education, evaluated.jd.education)
                      THEN Points(20) ELSE 0)

\* a call of a resume with "PhD Physics" on a job asking "Master's or PhD"
\* has returned with the 20 education points
C25_Witness ==
    /\ status = "returned"
    /\ evaluated.resume.education = <<<<"D","i","p","l","o","m","a">>, <<"P","h","D"," ","P","h","y","s","i","c","s">>>>
    /\ evaluated.jd.education = <<<<"M","a","s","t","e","r","'","s"," ","o","r"," ","P","h","D">>>>
    /\ evaluated.resume.experience = <<"9"," ","y","r","s">>
    /\ evaluated.jd.experience_required = <<"2"," ","y","e","a","r","s">>
    /\ scores.hard_score = Points(70)

(***************************************************************************)
(* Verdict and suggestions over the three score bands: calls on a fresh    *)
(* engine whose resume text is unrelated to the job text, close to it, or  *)
(* equal to it.                                                            *)
(***************************************************************************)
BandResumes ==
    [skills : {<<>>, <<<<"R","u","s","t">>, <<"P","y","t","h","o","n","3">>>>}, experience : ResumeExperience,
     education : ResumeEducation, projects : ProjectLists,
     certifications : CertificationLists,
     resume_text : {ResumeTextA, ResumeTextB, JobTextA}]

BandJobs ==
    [required_skills : {<<>>, <<<<"r","u","s","t">>>>, <<<<"p","y","t","h","o","n">>, <<"r","u","s","t">>>>, LongRequired},
     preferred_skills : {<<>>, <<<<"p","y","t","h","o","n">>, <<"p","y","t","h","o","n">>, <<"p","y","t","h","o","n">>>>},
     experience_required : JobExperience, education : JobEducation,
     description_text : {JobTextA}]

\* a fresh engine serves one call, the embedding model working
BandNext ==
    /\ status = "idle"
    /\ \E resume \in BandResumes, jd \in BandJobs :
          Evaluate(resume, jd, FALSE) /\ UNCHANGED remembered

SpecBands == Init /\ [][BandNext]_vars

\* the conditional suggestions of a call, in their order, by what the call
\* returned as missing_skills
ConditionalKinds(resume, jd, missing) ==
    (IF missing # <<>> THEN <<"missing_skills">> ELSE <<>>)
    \o (IF FirstInteger(resume.experience) < FirstInteger(jd.experience_required)
        THEN <<"experience">> ELSE <<>>)
    \o (IF Len(resume.projects) < 2 THEN <<"projects">> ELSE <<>>)
    \o (IF resume.certifications = <<>> THEN <<"certifications">> ELSE <<>>)

\* the closing suggestions of a score
ClosingOf(final_score) ==
    IF final_score < Points(50) THEN <<"needs_improvement", "core_skills">>
    ELSE IF final_score < Points(75) THEN <<"moderately_suitable">>
    ELSE <<"highly_suitable">>

\* the first n entries of the list
FirstN(list, n) == [i \in 1..Min2(n, Len(list)) |-> list[i]]

\* the kinds of the suggestions, in order
KindsOf(suggestions) == [i \in 1..Len(suggestions) |-> suggestions[i].kind]

\* C26: the suggestions are the first 5 of, in this order: a missing-skills
\* suggestion iff missing_skills is non-empty, naming at most its first 5
\* entries; an experience suggestion iff resume_years < job_years; a
\* projects suggestion iff the resume has fewer than 2 projects; a
\* certifications suggestion iff it has none; two closing suggestions for a
\* score below 50, else one.  An item is dropped only when all four
\* conditional suggestions fire and the score is below 50, and then only
\* the second closing suggestion.
C26_SuggestionsInOrder ==
    status = "returned" =>
        \E expected \in {ConditionalKinds(evaluated.resume, evaluated.jd,
                                          evaluation.missing_skills)
                         \o ClosingOf(scores.final_score)} :
            /\ KindsOf(evaluation.suggestions) = FirstN(expected, 5)
            /\ \A i \in 1..Len(evaluation.suggestions) :
                  /\ evaluation.suggestions[i].kind = "missing_skills"
                     => evaluation.suggestions[i].detail
                           = FirstN(evaluation.missing_skills, 5)
                  /\ evaluation.suggestions[i].kind = "experience"
                     => evaluation.suggestions[i].detail
                           = <<FirstInteger(evaluated.jd.experience_required),
                               FirstInteger(evaluated.resume.experience)>>
            /\ Len(expected) > 5
               => /\ Len(ConditionalKinds(evaluated.resume, evaluated.jd,
                                          evaluation.missing_skills)) = 4
                  /\ scores.final_score < Points(50)
                  /\ Len(expected) = 6
                  /\ expected[6] = "core_skills"

\* a call with six missing skills has returned five suggestions, the first
\* naming the first five missing skills and the last being the first
\* closing suggestion of a score below 50
C26_Witness ==
    /\ status = "returned"
    /\ evaluation.missing_skills = LongRequired
    /\ Len(evaluation.suggestions) = 5
    /\ evaluation.suggestions[1].detail
          = <<<<"p","y","t","h","o","n">>, <<"r","u","s","t">>, <<"r","u","s","t">>, <<"r","u","s","t">>, <<"r","u","s","t">>>>
    /\ evaluation.suggestions[2].kind = "experience"
    /\ evaluation.suggestions[5].kind = "needs_improvement"

\* the kinds of closing suggestions among the suggestions
ClosingPresent(suggestions) ==
    {suggestions[i].kind : i \in 1..Len(suggestions)} \cap ClosingKinds

\* C28: in every EvaluationResult returned by calculate_relevance_score the
\* verdict is Low iff the "needs significant improvement" closing suggestion
\* is present, Medium iff the "moderately suitable" one is, High iff the
\* "highly suitable" one is.
C28_ClosingAgreesWithVerdict ==
    status = "returned" =>
        /\ (evaluation.verdict = "Low")
              = ("needs_improvement" \in ClosingPresent(evaluation.suggestions))
        /\ (evaluation.verdict = "Medium")
              = ("moderately_suitable" \in ClosingPresent(evaluation.suggestions))
        /\ (evaluation.verdict = "High")
              = ("highly_suitable" \in ClosingPresent(evaluation.suggestions))

\* a call has returned High with the "highly suitable" suggestion as its
\* last suggestion
C28_Witness ==
    /\ status = "returned"
    /\ evaluation.verdict = "High"
    /\ evaluation.suggestions[Len(evaluation.suggestions)].kind = "highly_suitable"
    /\ evaluation.relevance_score >= 7500
    /\ evaluated.resume.certifications = <<>>

\* C27: _calculate_bm25_score returns a score within [0, 100] for all
\* resume and job token lists, and 0 whenever the self-score of the resume
\* is 0.
C27_RankingScoreWithinRange ==
    (status # "idle" /\ ~evaluated.encode_raises) =>
        /\ ~BM25Raises(Tokens[evaluated.resume.resume_text])
        /\ CalculateBM25Score(evaluated.resume.resume_text,
                              evaluated.jd.description_text) \in 0..Points(100)
        /\ BM25GetScores(Tokens[evaluated.resume.resume_text],
                         Tokens[evaluated.resume.resume_text]) = 0
           => CalculateBM25Score(evaluated.resume.resume_text,
                                 evaluated.jd.description_text) = 0

(***************************************************************************)
(* process_job_description and process_resume called on the system, and    *)
(* the clock that datetime.now() reads: it advances by one with every      *)
(* process_job_description call that is followed in time.                  *)
(***************************************************************************)
MaxCalls == 4

\* the reading of the clock at the latest call
Now == IF last_call = <<>> THEN 0 ELSE last_call.now

\* system.process_job_description(jd_text, company, location) when the
\* clock reads now
SystemProcessJobDescription(jd_text, company, location, now) ==
    /\ \E r \in {ProcessJobDescriptionAt(Database, jd_text, company, location, now)} :
          /\ jobs_table' = r.db.jobs
          /\ last_call' = [op |-> "process_job_description", jd_text |-> jd_text,
                           company |-> company, location |-> location, now |-> now,
                           returned |-> r.jd,
                           replaced |-> \E row \in jobs_table :
                                           /\ row.job_id = r.jd.job_id
                                           /\ row.company # company]
    /\ UNCHANGED <<engine_vars, models_loaded, constructed, resumes_table,
                   evaluations_table, api_response>>

\* system.process_resume(file_path)
SystemProcessResume(file) ==
    /\ \E r \in {ProcessResume(Database, file)} :
          /\ resumes_table' = r.db.resumes
          /\ last_call' = [op |-> "process_resume", file_path |-> file.file_path,
                           outcome |-> r.outcome]
    /\ UNCHANGED <<engine_vars, models_loaded, constructed, jobs_table,
                   evaluations_table, api_response>>

\* process_job_description calls, one per tick of the clock
JobsNext ==
    /\ Now < MaxCalls
    /\ \E jd_text \in JobTexts, company \in Companies, location \in Locations :
          SystemProcessJobDescription(jd_text, company, location, Now + 1)

SpecJobs == SystemSpecInit /\ [][JobsNext]_vars

\* C30: every process_job_description call leaves exactly one row for its
\* jd_text, carrying the job_id of the text and the company, location and
\* created_at of this call, and leaves the rows of every other text as
\* they were: the table holds one row per distinct jd_text, that of the
\* most recent call with the text.
C30_OneRowPerTextLatestWins ==
    [][/\ \A row \in jobs_table' :
             /\ row.description_text = last_call'.jd_text
                => /\ row.job_id = Md5Hex10(last_call'.jd_text)
                   /\ row.company = last_call'.company
                   /\ row.location = last_call'.location
                   /\ row.created_at = last_call'.now
             /\ row.description_text # last_call'.jd_text => row \in jobs_table
       /\ \A row \in jobs_table :
             row.description_text # last_call'.jd_text => row \in jobs_table'
       /\ Cardinality({row \in jobs_table' :
                          row.description_text = last_call'.jd_text}) = 1
       /\ Cardinality(jobs_table') = Cardinality({row.description_text : row \in jobs_table'})
      ]_vars

\* a call with the text of an earlier call and another company has replaced
\* the row of the text, beside the row of another text stored before
C30_Witness ==
    /\ last_call # <<>>
    /\ last_call.replaced
    /\ last_call.company = <<"A","c","m","e">>
    /\ Cardinality(jobs_table) = 2
    /\ \E row \in jobs_table :
          /\ row.description_text = last_call.jd_text
          /\ row.company = <<"A","c","m","e">>
          /\ row.created_at = last_call.now
    /\ \E row \in jobs_table :
          /\ row.description_text # last_call.jd_text
          /\ row.created_at < last_call.now

(***************************************************************************)
(* The operations that write the database, in any order, on the system of  *)
(* the API: process_job_description, process_resume, evaluate_resume,      *)
(* batch_evaluate and the upload_resume handler.  Time is not followed.    *)
(***************************************************************************)
\* the upload_resume requests that carry a file and a job_id
StoreUploads ==
    {[resume |-> upload, job_id |-> job_id] :
        upload \in {u \in Uploads : u.text = ResumeTextA},
        job_id \in {JobIdA, <<"j","1">>}}

\* no path of the batch fails in save_evaluation, or each does
StoreFaults(files) == {[n \in 1..Len(files) |-> fault] : fault \in {"none", "save"}}

StoreNext ==
    \/ \E company \in Companies :
          SystemProcessJobDescription(JobTextA, company, <<"U","n","k","n","o","w","n">>, 0)
    \/ \E file \in EvaluatedFiles : SystemProcessResume(file)
    \/ \E file \in EvaluatedFiles, encode_raises \in BOOLEAN :
          SystemEvaluateResume(file, JobTextA, encode_raises, [kind |-> "unused"])
    \/ \E files \in BatchFiles : \E faults \in StoreFaults(files) :
          SystemBatchEvaluate(files, JobTextA, faults)
    \/ \E request \in StoreUploads, encode_raises \in BOOLEAN :
          ApiUploadResume(request, encode_raises)

SpecStore == ApiInit /\ [][StoreNext]_vars

\* C29: every row of the evaluations table refers to a resume_id and a
\* job_id that have a row in the resumes and in the job_descriptions table,
\* after any sequence of process_job_description, process_resume,
\* evaluate_resume, batch_evaluate and upload_resume operations, failing
\* ones included.
C29_EvaluationsReferToStoredRows ==
    \A row \in evaluations_table :
        /\ \E resume_row \in resumes_table : resume_row.resume_id = row.resume_id
        /\ \E job_row \in jobs_table : job_row.job_id = row.job_id

\* two evaluations are stored, and the latest operation was an upload that
\* failed in the engine after its resume had been saved
C29_Witness ==
    /\ Cardinality(evaluations_table) = 2
    /\ last_call.op = "upload_resume"
    /\ last_call.encode_raises
    /\ api_response.status = 400
    /\ \E row \in resumes_table : row.file_path = <<"/","t","m","p","/","a",".","p","d","f">>
=============================================================================
